---------------------------- MODULE Spec2Model ----------------------------
(***************************************************************************)
(* Model of the CLIBoard spawner (spawner/src/server.js, here              *)
(* src/unnamed/part_003): the run registry, the container runtime as the   *)
(* spawner drives it through dockerode, the attach-stream pumps, the idle  *)
(* reaper and the path guard.                                              *)
(*                                                                         *)
(* A handler that awaits the container runtime is modelled as several      *)
(* steps, one per await, held in `pending`; a handler without an await is  *)
(* one step.  Paths are sequences of one-character strings, so that the    *)
(* string tests of the source (startsWith, ===) are computed on characters.*)
(***************************************************************************)
EXTENDS Integers, Sequences, FiniteSets, Bags, TLC

(***************************************************************************)
(* Bounds of the model.                                                    *)
(***************************************************************************)
MaxPathLen == 6

MaxRuns == 1
MaxRunIds == 2

MaxContainers == 1
MaxPoolContainers == 2
MaxWsWrites == 2
TailCap == 1

MaxListeners == 1

MaxPending == 2

MaxChunks == 2

MaxTime == 2

\* the value IDLE_TIMEOUT_SEC is configured to, in clock ticks
IdleTimeoutCfg == 1

(***************************************************************************)
(* Path Guard: path.isAbsolute, path.resolve, path.relative as Node's      *)
(* posix implementation computes them, then isSubPath / isAllowed.         *)
(***************************************************************************)
PathChars == {"/", ".", "w", "c", "r"}

\* process.cwd(), against which path.resolve resolves a relative path
Cwd == <<"/">>

\* ALLOW_WORKSPACE_ROOTS / ALLOW_CREDS_ROOTS, each already path.resolve'd
ALLOW_WORKSPACE_ROOTS == { <<"/", "w">> }

ALLOW_CREDS_ROOTS == { <<"/", "c">> }

isAbsolute(p) == Len(p) > 0 /\ p[1] = "/"

\* split a character sequence on "/" into its components (empty ones kept)
RECURSIVE SplitFrom(_, _, _)
SplitFrom(p, i, cur) ==
  IF i > Len(p) THEN <<cur>>
  ELSE IF p[i] = "/" THEN <<cur>> \o SplitFrom(p, i + 1, <<>>)
  ELSE SplitFrom(p, i + 1, Append(cur, p[i]))

SplitPath(p) == SplitFrom(p, 1, <<>>)

\* normalizeString of an absolute path: "" and "." are dropped, ".." pops
\* the last component and is dropped at the root
RECURSIVE NormalizeParts(_, _, _)
NormalizeParts(parts, i, acc) ==
  IF i > Len(parts) THEN acc
  ELSE IF parts[i] = <<>> \/ parts[i] = <<".">> THEN NormalizeParts(parts, i + 1, acc)
  ELSE IF parts[i] = <<".", ".">>
       THEN NormalizeParts(parts, i + 1,
                           IF Len(acc) = 0 THEN acc ELSE SubSeq(acc, 1, Len(acc) - 1))
  ELSE NormalizeParts(parts, i + 1, Append(acc, parts[i]))

\* the components of path.resolve(p)
ResolveParts(p) ==
  NormalizeParts(SplitPath(IF isAbsolute(p) THEN p ELSE Cwd \o <<"/">> \o p), 1, <<>>)

RECURSIVE JoinParts(_, _)
JoinParts(parts, i) ==
  IF i > Len(parts) THEN <<>>
  ELSE (IF i > 1 THEN <<"/">> ELSE <<>>) \o parts[i] \o JoinParts(parts, i + 1)

\* path.resolve(p): "/" followed by the components joined with "/"
resolve(p) == <<"/">> \o JoinParts(ResolveParts(p), 1)

RECURSIVE CommonLen(_, _, _)
CommonLen(a, b, i) ==
  IF i > Len(a) \/ i > Len(b) \/ a[i] # b[i] THEN i - 1 ELSE CommonLen(a, b, i + 1)

\* path.relative(from, to): one ".." per component of `from` below the
\* common prefix, then the rest of `to`
relative(from, to) ==
  LET f == ResolveParts(from)
      t == ResolveParts(to)
      k == CommonLen(f, t, 1)
      ups == [i \in 1..(Len(f) - k) |-> <<".", ".">>]
  IN  JoinParts(ups \o SubSeq(t, k + 1, Len(t)), 1)

\* String.prototype.startsWith
startsWith(s, pre) == Len(s) >= Len(pre) /\ SubSeq(s, 1, Len(pre)) = pre

\* variant: containment by string prefix
isSubPath_PrefixMatch(child, parent) == startsWith(resolve(child), resolve(parent))

isSubPath(child, parent) ==
  LET rel == relative(parent, child)
  IN  rel # <<>> /\ ~startsWith(rel, <<".", ".">>) /\ ~isAbsolute(rel)

isAllowed(p, allowedRoots) ==
  LET abs == resolve(p)
  IN  \E root \in allowedRoots : abs = root \/ isSubPath(abs, root)

ENGINES == {"codex", "gemini", "opencode"}

(***************************************************************************)
(* State.                                                                  *)
(***************************************************************************)
VARIABLES
  now,              \* Date.now(), in ticks
  IDLE_TIMEOUT_SEC, \* the configured idle timeout (0 disables the reaper)
  runs,             \* the registry: the runIds that are keys of the Map `runs`
  run,              \* the run objects, which handlers and stream callbacks keep
                    \* a reference to also after runs.delete
  containers,       \* the container runtime: state and labels per container id
  files,            \* transcript files: path -> the entries appended so far
  runsDirs,         \* the <workspace>/.runs directories ensureDir has created
  events,           \* per runId, the lifecycle events broadcast on the bus
  res,              \* the log followers' SSE responses
  pending,          \* the handlers suspended at an await (a bag of records)
  resp,             \* SpecHttp only: the answer the step just taken sent
  gPath, gOut,      \* Path Guard specification: the path under test, the verdict
  envFile,          \* the text of <creds>/.env, or NoFile
  credDirs,         \* the subdirectories of <creds> that are not empty
  credsOut          \* what the creds operation just carried out returned

vars == <<now, IDLE_TIMEOUT_SEC, runs, run, containers, files, runsDirs, events,
          res, pending, resp, gPath, gOut, envFile, credDirs, credsOut>>

orchVars == <<now, IDLE_TIMEOUT_SEC, runs, run, containers, files, runsDirs, events,
              res, pending, resp>>

guardVars == <<gPath, gOut>>

credsVars == <<envFile, credDirs, credsOut>>

\* the run ids uuidv4 can give out
RunIds == 1..MaxRunIds

\* the run ids the requests and callbacks of the orchestrator's specification
\* address: those of the Runs it starts
OrchRunIds == 1..MaxRuns

\* the container ids the runtime can give out
CIds == 1..MaxPoolContainers

LIds == 1..MaxListeners

NoRun == [status |-> "none"]

NoContainer == [state |-> "none"]

NoRes == [state |-> "unused"]

NoResp == [op |-> "none"]

NoVerdict == [op |-> "none", accepted |-> FALSE]

NoFile == [exists |-> FALSE, text |-> <<>>]

\* the value of a key an env object does not have
Undefined == <<"undefined">>

NoCredsOut == [op |-> "none"]

TerminalEvents == {"run-exited", "run-stopped", "run-killed", "run-idle-stopped", "run-closed"}

\* the request bodies the orchestrator's specification draws from: a known
\* and an unknown engine, over the allowed workspace and creds pocket
ReqEngines == {"codex", "vim"}

StartRequests ==
  [engine : ReqEngines, workspace : ALLOW_WORKSPACE_ROOTS, creds : ALLOW_CREDS_ROOTS,
   preferWarm : BOOLEAN]

EnsureRequests ==
  [engine : ReqEngines, workspace : ALLOW_WORKSPACE_ROOTS, creds : ALLOW_CREDS_ROOTS]

\* the request bodies the request/response specification draws from: also
\* relative paths and paths outside the allowed roots
ReqWorkspaces == { <<"/", "w">>, <<"w">>, <<"/", "c">> }

ReqCreds == { <<"/", "c">>, <<"c">>, <<"/", "w">> }

HttpStartRequests ==
  [engine : ReqEngines, workspace : ReqWorkspaces, creds : ReqCreds, preferWarm : BOOLEAN]

(***************************************************************************)
(* Helpers over the state.                                                 *)
(***************************************************************************)
Min(S) == CHOOSE x \in S : \A y \in S : x <= y

FreeRunIds == {r \in RunIds : run[r] = NoRun}

FreeCIds == {c \in CIds : containers[c] = NoContainer}

\* the orchestrator's specifications keep at most MaxContainers containers
HostFits == Cardinality({c \in CIds : containers[c] # NoContainer}) <= MaxContainers

\* uuidv4(): an id no run has had
uuidv4 == Min(FreeRunIds)

\* the id the runtime gives the next container it creates
NewCid == Min(FreeCIds)

Started(r) == run[r] # NoRun

\* all specifications but the transcripts' start at most MaxRuns Runs
RunsFit == Cardinality({r \in RunIds : Started(r)}) <= MaxRuns

\* the same caps as guards: a request is taken while a Run, or a container,
\* can still be added
RunsLeft == Cardinality({r \in RunIds : Started(r)}) < MaxRuns

HostLeft == Cardinality({c \in CIds : containers[c] # NoContainer}) < MaxContainers

\* labelsForWarm
labelsForWarm(req) ==
  [warm |-> TRUE, engine |-> req.engine, workspace |-> req.workspace, creds |-> req.creds,
   readonly |-> "1", uidgid |-> "", runId |-> 0]

\* variant: a fresh container labelled as a warm one as well
labelsForRun_Warm(req, runId) ==
  [warm |-> TRUE, engine |-> req.engine, workspace |-> req.workspace, creds |-> req.creds,
   readonly |-> "-", uidgid |-> "-", runId |-> runId]

\* the Labels startRun gives a fresh container (no adz.warm, readonly, uidgid)
labelsForRun(req, runId) ==
  [warm |-> FALSE, engine |-> req.engine, workspace |-> req.workspace, creds |-> req.creds,
   readonly |-> "-", uidgid |-> "-", runId |-> runId]

\* findWarmContainer: the running containers the label filter matches
findWarmContainer(req) ==
  {c \in CIds : /\ containers[c] # NoContainer
                /\ containers[c].state = "running"
                /\ containers[c].labels = labelsForWarm(req)}

\* docker.listContainers({all: true, filters: {label: ['adz.runId=<id>']}})
listByRunId(id) ==
  {c \in CIds : /\ containers[c] # NoContainer
                /\ containers[c].state \in {"created", "running", "exited"}
                /\ containers[c].labels.runId = id}

\* container.stop({t: 2}) and container.kill(): a running container exits;
\* a call the runtime fails (ok = FALSE) changes nothing and the caller
\* swallows the error
DriverStop(cs, c, ok) ==
  IF ok /\ cs[c] # NoContainer /\ cs[c].state = "running"
  THEN [cs EXCEPT ![c].state = "exited"] ELSE cs

\* variant: a handler that never removes the container
DriverRemove_Skipped(cs, c, ok) == cs

\* container.remove({force: true})
DriverRemove(cs, c, ok) ==
  IF ok /\ cs[c] # NoContainer /\ cs[c].state \in {"created", "running", "exited"}
  THEN [cs EXCEPT ![c].state = "gone"] ELSE cs

\* tsForFile() and the transcript path <workspace>/.runs/<engine>-<ts>.log
transcriptPathOf(req) ==
  [runsDir |-> resolve(req.workspace), engine |-> req.engine, fileTs |-> now]

\* the entries of a transcript file that run r's own stream wrote
OwnChunks(r) ==
  IF ~Started(r) \/ run[r].transcriptPath \notin DOMAIN files THEN <<>>
  ELSE SelectSeq(files[run[r].transcriptPath], LAMBDA e : e.run = r /\ e.kind = "chunk")

\* fsp.appendFile / transcriptStream.write on a path
AppendFile(fs, path, entry) ==
  IF path \in DOMAIN fs THEN [fs EXCEPT ![path] = Append(@, entry)]
  ELSE [q \in DOMAIN fs \cup {path} |-> IF q = path THEN <<entry>> ELSE fs[q]]

\* fs.createWriteStream(path, {flags: 'a'}): creates the file when missing
CreateFile(fs, path) ==
  IF path \in DOMAIN fs THEN fs
  ELSE [q \in DOMAIN fs \cup {path} |-> IF q = path THEN <<>> ELSE fs[q]]

\* write `frames` to every response in `ls`
WriteTo(rs, ls, frames) ==
  [l \in LIds |-> IF l \in ls THEN [rs[l] EXCEPT !.frames = @ \o frames] ELSE rs[l]]

\* write `frames` to every response in `ls`, then res.end() it
WriteAndEnd(rs, ls, frames) ==
  [l \in LIds |-> IF l \in ls
                  THEN [rs[l] EXCEPT !.frames = @ \o frames, !.state = "ended"]
                  ELSE rs[l]]

\* variant: a bus on which run-started is never broadcast
eventsBroadcast_NoStarted(ev, r, name) ==
  IF name = "run-started" THEN ev ELSE [ev EXCEPT ![r] = Append(@, name)]

\* eventClients holds at most one response here, kept under key BusClient
\* of the bus: its state (none, open, closed), the frames written to it, and
\* how many events had been broadcast per run when it joined (from) and when
\* it left (to)
BusClient == 0

NoClient ==
  [state |-> "none", frames |-> <<>>, from |-> [r \in RunIds |-> 0],
   to |-> [r \in RunIds |-> 0]]

\* for (const res of eventClients) { res.write(...) }
ClientWrite(c, r, name) ==
  IF c.state = "open" THEN [c EXCEPT !.frames = Append(@, [run |-> r, name |-> name])]
  ELSE c

eventsBroadcast(ev, r, name) ==
  [ev EXCEPT ![r] = Append(@, name), ![BusClient] = ClientWrite(@, r, name)]

\* eventsBroadcast of each event of a list
RECURSIVE BroadcastAll(_, _, _)
BroadcastAll(ev, r, names) ==
  IF names = <<>> THEN ev
  ELSE BroadcastAll(eventsBroadcast(ev, r, Head(names)), r, Tail(names))

(***************************************************************************)
(* Init: the state after the module was loaded.                            *)
(***************************************************************************)
\* the state after the module was loaded with IDLE_TIMEOUT_SEC=<timeout>
OrchInitWith(timeout) ==
  /\ now = 1
  /\ IDLE_TIMEOUT_SEC = timeout
  /\ runs = {}
  /\ run = [r \in RunIds |-> NoRun]
  /\ containers = [c \in CIds |-> NoContainer]
  /\ files = <<>>
  /\ runsDirs = {}
  /\ events = [k \in RunIds \cup {BusClient} |-> IF k = BusClient THEN NoClient ELSE <<>>]
  /\ res = [l \in LIds |-> NoRes]
  /\ pending = EmptyBag
  /\ resp = NoResp

OrchInit == OrchInitWith(IdleTimeoutCfg)

\* a creds directory that holds nothing yet
CredsInit ==
  /\ envFile = NoFile
  /\ credDirs = {}
  /\ credsOut = NoCredsOut

Init ==
  /\ OrchInit
  /\ gPath = <<>>
  /\ gOut = NoVerdict
  /\ CredsInit

(***************************************************************************)
(* startRun / POST /runs                                                   *)
(***************************************************************************)
\* variant: startRun without its engine test
StartRunError_NoEngineCheck(req) ==
  IF ~isAbsolute(req.workspace) THEN "workspace must be an absolute path"
  ELSE IF ~isAbsolute(req.creds) THEN "creds must be an absolute path"
  ELSE IF ~isAllowed(req.workspace, ALLOW_WORKSPACE_ROOTS) THEN "workspace not under allowed roots"
  ELSE IF ~isAllowed(req.creds, ALLOW_CREDS_ROOTS) THEN "creds not under allowed roots"
  ELSE "none"

\* the five throws that open startRun, in order
StartRunError(req) ==
  IF req.engine \notin ENGINES THEN "Invalid engine"
  ELSE IF ~isAbsolute(req.workspace) THEN "workspace must be an absolute path"
  ELSE IF ~isAbsolute(req.creds) THEN "creds must be an absolute path"
  ELSE IF ~isAllowed(req.workspace, ALLOW_WORKSPACE_ROOTS) THEN "workspace not under allowed roots"
  ELSE IF ~isAllowed(req.creds, ALLOW_CREDS_ROOTS) THEN "creds not under allowed roots"
  ELSE "none"

\* the run object startRun builds, for a warm exec or a fresh container
NewRun(req, c, isExec) ==
  [status |-> "running", isExec |-> isExec, containerId |-> c, engine |-> req.engine,
   workspace |-> req.workspace, transcriptPath |-> transcriptPathOf(req),
   transcriptEnded |-> FALSE, listeners |-> {}, attachStream |-> "open",
   lastActivityAt |-> now, chunks |-> 0, waited |-> FALSE, wsWrites |-> 0,
   ws |-> FALSE]

\* the body of startRun after its checks passed, taken as one step with the
\* runtime carrying out every call: ensureDir and the transcript,
\* then the warm exec when preferWarm finds a warm container, else a fresh
\* container; the run is registered and run-started broadcast
StartRunBody(req) ==
  LET runId == uuidv4
      warm  == IF req.preferWarm THEN findWarmContainer(req) ELSE {}
  IN  /\ FreeRunIds # {}
      /\ runsDirs' = runsDirs \cup {resolve(req.workspace)}
      /\ files' = CreateFile(files, transcriptPathOf(req))
      /\ IF warm # {}
         THEN /\ \E c \in warm : run' = [run EXCEPT ![runId] = NewRun(req, c, TRUE)]
              /\ UNCHANGED containers
         ELSE /\ FreeCIds # {}
              /\ containers' = [containers EXCEPT ![NewCid] =
                                  [state |-> "running", labels |-> labelsForRun(req, runId)]]
              /\ run' = [run EXCEPT ![runId] = NewRun(req, NewCid, FALSE)]
      /\ runs' = runs \cup {runId}
      /\ events' = eventsBroadcast(events, runId, "run-started")
      /\ UNCHANGED <<now, IDLE_TIMEOUT_SEC, res, pending, guardVars, credsVars>>

\* POST /runs: startRun throws before it has done anything, or runs
StartRun(req) ==
  IF StartRunError(req) # "none"
  THEN UNCHANGED <<now, IDLE_TIMEOUT_SEC, runs, run, containers, files, runsDirs,
                   events, res, pending, guardVars, credsVars>>
  ELSE StartRunBody(req)

\* the answer to POST /runs: a throw of startRun reaches the express error
\* handler, which answers 400 with the message
StartRunResponse(req) ==
  IF StartRunError(req) # "none"
  THEN [op |-> "start", code |-> 400, error |-> StartRunError(req)]
  ELSE [op |-> "start", code |-> 200, error |-> "none"]

\* the calls of the fresh branch of startRun that the runtime may fail:
\* docker.createContainer, container.start, container.attach
DriverStages == {"create", "start", "attach"}

\* the runId drawn by a start that throws: no Run is registered under it
LostRunId == MaxRunIds + 1

\* startRun on a request that passed its checks and takes the fresh branch,
\* with the runtime failing the call `stage`: the .runs directory and the
\* transcript exist by then, a container that was created stays created, one
\* that was started keeps running, and nothing is registered or broadcast
StartRun_DriverFails(req, stage) ==
  /\ StartRunError(req) = "none"
  /\ ~(req.preferWarm /\ findWarmContainer(req) # {})
  /\ FreeCIds # {}
  /\ runsDirs' = runsDirs \cup {resolve(req.workspace)}
  /\ files' = CreateFile(files, transcriptPathOf(req))
  /\ containers' =
       CASE stage = "create" -> containers
         [] stage = "start" ->
              [containers EXCEPT ![NewCid] =
                 [state |-> "created", labels |-> labelsForRun(req, LostRunId)]]
         [] stage = "attach" ->
              [containers EXCEPT ![NewCid] =
                 [state |-> "running", labels |-> labelsForRun(req, LostRunId)]]
  /\ UNCHANGED <<now, IDLE_TIMEOUT_SEC, runs, run, events, res, pending, guardVars,
                 credsVars>>

\* the rejection of POST /runs reaches the express error handler, which
\* answers res.status(400).json({ error: String(err.message) })
StartRun_DriverFailsAnswer(req, stage) ==
  [op |-> "start", req |-> req, code |-> 400, error |-> "runtime failed: " \o stage]

(***************************************************************************)
(* Warm pool: POST /warm/ensure, DELETE /warm/:id                          *)
(***************************************************************************)
EnsureWarmError(req) ==
  IF req.engine \notin ENGINES THEN "invalid engine"
  ELSE IF ~isAbsolute(req.workspace) \/ ~isAbsolute(req.creds)
       THEN "workspace and creds must be absolute"
  ELSE IF ~isAllowed(req.workspace, ALLOW_WORKSPACE_ROOTS)
          \/ ~isAllowed(req.creds, ALLOW_CREDS_ROOTS) THEN "paths not allowed"
  ELSE "none"

\* the answer of POST /warm/ensure
EnsureWarmResponse(req) ==
  IF EnsureWarmError(req) # "none"
  THEN [op |-> "warm-ensure", code |-> 400, error |-> EnsureWarmError(req)]
  ELSE [op |-> "warm-ensure", code |-> 200, error |-> "none"]

EnsureWarm(req) ==
  /\ IF EnsureWarmError(req) # "none" \/ findWarmContainer(req) # {}
     THEN UNCHANGED containers
     ELSE /\ FreeCIds # {}
          /\ containers' = [containers EXCEPT ![NewCid] =
                              [state |-> "running", labels |-> labelsForWarm(req)]]
  /\ UNCHANGED <<now, IDLE_TIMEOUT_SEC, runs, run, files, runsDirs, events, res,
                 pending, guardVars, credsVars>>

\* ensureWarmContainer step by step.  The handler suspended at
\* `await docker.createContainer` after findWarmContainer returned null:
EnsureHandler(req) == [op |-> "ensure", run |-> 0, pc |-> "create", req |-> req]

\* POST /warm/ensure up to the answer of findWarmContainer: an existing
\* container is returned, else the handler goes on to create one
EnsureWarm_Find(req) ==
  /\ EnsureWarmError(req) = "none"
  /\ IF findWarmContainer(req) # {}
     THEN UNCHANGED pending
     ELSE /\ BagCardinality(pending) < MaxPending
          /\ pending' = pending (+) SetToBag({EnsureHandler(req)})
  /\ UNCHANGED <<now, IDLE_TIMEOUT_SEC, runs, run, containers, files, runsDirs, events,
                 res, guardVars, credsVars>>

\* docker.createContainer({... Labels: labelsForWarm(...)}) and container.start()
EnsureWarm_Create(req) ==
  /\ BagIn(EnsureHandler(req), pending)
  /\ FreeCIds # {}
  /\ containers' = [containers EXCEPT ![NewCid] =
                      [state |-> "running", labels |-> labelsForWarm(req)]]
  /\ pending' = pending (-) SetToBag({EnsureHandler(req)})
  /\ UNCHANGED <<now, IDLE_TIMEOUT_SEC, runs, run, files, runsDirs, events, res,
                 guardVars, credsVars>>

\* DELETE /warm/:id stops and removes whatever container has that id
WarmDelete(c) ==
  /\ containers[c] # NoContainer
  /\ \E ok1, ok2 \in BOOLEAN :
        containers' = DriverRemove(DriverStop(containers, c, ok1), c, ok2)
  /\ UNCHANGED <<now, IDLE_TIMEOUT_SEC, runs, run, files, runsDirs, events, res,
                 pending, guardVars, credsVars>>

(***************************************************************************)
(* The output pump: the 'data' handlers of the attach stream (fresh) and   *)
(* of the exec stream (warm), which are the same code twice.               *)
(***************************************************************************)
\* the two frames the handler writes to a listener for one chunk:
\* "event: chunk / data: <b64>" and then "data: b64:<b64>"
ChunkFrames(d) == << [kind |-> "chunk", data |-> d], [kind |-> "b64", data |-> d] >>

\* variant: a data handler that writes to the transcript only
FanOut_SkipListeners(rs, ls, d) == rs

\* for (const res of run.listeners) { res.write(...) }
FanOut(rs, ls, d) == WriteTo(rs, ls, ChunkFrames(d))

\* transcriptStream.write(chunk); after transcriptStream.end() nothing is written
TranscriptWrite(fs, r, d) ==
  IF run[r].transcriptEnded THEN fs
  ELSE AppendFile(fs, run[r].transcriptPath, [run |-> r, kind |-> "chunk", data |-> d])

\* detectArtifactsFromLine over the lines of a chunk: the events to
\* broadcast.  The engine of the model prints a URL in every odd chunk.
detectArtifacts(d) == IF d % 2 = 1 THEN <<"artifact">> ELSE <<>>

\* for (const ev of evs) eventsBroadcast(ev.type, ...)
ScanArtifacts(ev, r, d) == BroadcastAll(ev, r, detectArtifacts(d))

\* the container (or the exec'd engine) writes its next chunk, which carries
\* its number in the stream as payload, and the handler runs
OnData(r) ==
  /\ Started(r)
  /\ run[r].attachStream = "open"
  /\ containers[run[r].containerId].state = "running"
  /\ run[r].chunks < MaxChunks
  /\ run' = [run EXCEPT ![r].lastActivityAt = now, ![r].chunks = @ + 1]
  /\ files' = TranscriptWrite(files, r, run[r].chunks + 1)
  /\ res' = FanOut(res, run[r].listeners, run[r].chunks + 1)
  /\ events' = ScanArtifacts(events, r, run[r].chunks + 1)
  /\ UNCHANGED <<now, IDLE_TIMEOUT_SEC, runs, containers, runsDirs, pending, guardVars, credsVars>>

\* sseSend(res, data): the chunk's text as plain "data:" lines
SseFrames(d) == << [kind |-> "sse", data |-> d] >>

\* the handler runs for the next chunk and res.write throws for listener
\* `bad`.  The listeners the loop visited before it (`before`) have the
\* chunk.  The catch calls sseSend(res, data) on the same response: when
\* that write succeeds the loop goes on and the chunk is scanned; when it
\* throws too, the exception leaves the handler, which then has neither
\* written to the listeners after `bad` nor scanned the chunk.  No branch
\* touches run.listeners.
OnData_WriteFails(r, bad, fallbackOk) ==
  /\ Started(r)
  /\ run[r].attachStream = "open"
  /\ containers[run[r].containerId].state = "running"
  /\ run[r].chunks < MaxChunks
  /\ bad \in run[r].listeners
  /\ run' = [run EXCEPT ![r].lastActivityAt = now, ![r].chunks = @ + 1]
  /\ files' = TranscriptWrite(files, r, run[r].chunks + 1)
  /\ IF fallbackOk
     THEN /\ res' = WriteTo(FanOut(res, run[r].listeners \ {bad}, run[r].chunks + 1),
                            {bad}, SseFrames(run[r].chunks + 1))
          /\ events' = ScanArtifacts(events, r, run[r].chunks + 1)
     ELSE /\ \E before \in SUBSET (run[r].listeners \ {bad}) :
                res' = FanOut(res, before, run[r].chunks + 1)
          /\ UNCHANGED events
  /\ UNCHANGED <<now, IDLE_TIMEOUT_SEC, runs, containers, runsDirs, pending, guardVars, credsVars>>

\* "[[PROCESS EXITED]] status=<status>"
ExitedFrame(status) == << [kind |-> "exited", data |-> status] >>

\* the engine exec'd in a warm container ends and the stream's 'end' handler
\* runs: status, transcript end, marker to the listeners, run-exited
WarmStreamEnd(r) ==
  /\ Started(r)
  /\ run[r].isExec
  /\ run[r].attachStream = "open"
  /\ run' = [run EXCEPT ![r].status = "exited", ![r].attachStream = "ended",
                        ![r].transcriptEnded = TRUE, ![r].listeners = {}]
  /\ res' = WriteAndEnd(res, run[r].listeners, ExitedFrame("exited"))
  /\ events' = eventsBroadcast(events, r, "run-exited")
  /\ UNCHANGED <<now, IDLE_TIMEOUT_SEC, runs, containers, files, runsDirs,
                 pending, guardVars, credsVars>>

\* the engine of a fresh container exits by itself
ContainerExit(c) ==
  /\ containers[c] # NoContainer
  /\ ~containers[c].labels.warm
  /\ containers[c].state = "running"
  /\ containers' = [containers EXCEPT ![c].state = "exited"]
  /\ UNCHANGED <<now, IDLE_TIMEOUT_SEC, runs, run, files, runsDirs, events,
                 res, pending, guardVars, credsVars>>

\* HostConfig.AutoRemove: the runtime removes a fresh container that exited
AutoRemove(c) ==
  /\ containers[c] # NoContainer
  /\ ~containers[c].labels.warm
  /\ containers[c].state = "exited"
  /\ containers' = [containers EXCEPT ![c].state = "gone"]
  /\ UNCHANGED <<now, IDLE_TIMEOUT_SEC, runs, run, files, runsDirs, events,
                 res, pending, guardVars, credsVars>>

\* container.wait().then(...): resolveStatus inspects the container; when it
\* is gone already, inspect rejects and .catch(() => {}) ends the handler
WaitHandler(r) ==
  /\ Started(r)
  /\ ~run[r].isExec
  /\ ~run[r].waited
  /\ containers[run[r].containerId].state \in {"exited", "gone"}
  /\ IF containers[run[r].containerId].state = "gone"
     THEN /\ run' = [run EXCEPT ![r].waited = TRUE]
          /\ UNCHANGED <<res, events>>
     ELSE /\ run' = [run EXCEPT ![r].waited = TRUE, ![r].status = "exited",
                                ![r].transcriptEnded = TRUE, ![r].listeners = {}]
          /\ res' = WriteAndEnd(res, run[r].listeners, ExitedFrame("exited"))
          /\ events' = eventsBroadcast(events, r, "run-exited")
  /\ UNCHANGED <<now, IDLE_TIMEOUT_SEC, runs, containers, files, runsDirs,
                 pending, guardVars, credsVars>>

(***************************************************************************)
(* GET /runs/:id/logs and POST /runs/:id/input                             *)
(***************************************************************************)
\* the handler up to its first await (fsp.stat of the transcript)
GetLogs(id, l, follow) ==
  /\ res[l] = NoRes
  /\ IF id \notin runs
     THEN UNCHANGED res
     ELSE res' = [res EXCEPT ![l] = [state |-> "tailing", run |-> id, follow |-> follow,
                                     frames |-> <<>>, at |-> 0]]
  /\ UNCHANGED <<now, IDLE_TIMEOUT_SEC, runs, run, containers, files, runsDirs, events,
                 pending, guardVars, credsVars>>

\* variant: the whole transcript is sent
TailOf_Whole(f) == f

\* size = Math.min(stat.size, 64 * 1024) and the read of `size` bytes from
\* stat.size - size, with TailCap entries standing for the 64 KiB
TailOf(f) == SubSeq(f, Len(f) - Min({Len(f), TailCap}) + 1, Len(f))

\* the tail of the transcript is read and sent (one step, from fsp.stat to
\* listeners.add); with follow the response joins
\* run.listeners (`at` notes how many chunks of the run the file held then)
GetLogsTail(l) ==
  /\ res[l] # NoRes
  /\ res[l].state = "tailing"
  /\ LET r == res[l].run
         tail == [kind |-> "tail", data |-> TailOf(files[run[r].transcriptPath])]
     IN  IF res[l].follow
         THEN /\ res' = [res EXCEPT ![l].frames = Append(@, tail), ![l].state = "following",
                                    ![l].at = Len(OwnChunks(r))]
              /\ run' = [run EXCEPT ![r].listeners = @ \cup {l}]
         ELSE /\ res' = [res EXCEPT ![l].frames = Append(@, tail), ![l].state = "ended"]
              /\ UNCHANGED run
  /\ UNCHANGED <<now, IDLE_TIMEOUT_SEC, runs, containers, files, runsDirs,
                 events, pending, guardVars, credsVars>>

\* GET /runs/:id/logs step by step.  The handler suspended after fd.read:
\* it holds the buffer it read and how many chunks the file held (at)
LogsHandler(l, buf, at) == [op |-> "logs", run |-> l, pc |-> "close", buf |-> buf, at |-> at]

LogsPending == {h \in BagToSet(pending) : h.op = "logs"}

\* fsp.stat, fsp.open and fd.read: the tail as the file is now
GetLogs_Read(l) ==
  /\ res[l] # NoRes
  /\ res[l].state = "tailing"
  /\ BagCardinality(pending) < MaxPending
  /\ res' = [res EXCEPT ![l].state = "reading"]
  /\ pending' = pending (+)
        SetToBag({LogsHandler(l, TailOf(files[run[res[l].run].transcriptPath]),
                              Len(OwnChunks(res[l].run)))})
  /\ UNCHANGED <<now, IDLE_TIMEOUT_SEC, runs, run, containers, files, runsDirs, events,
                 guardVars, credsVars>>

\* after fd.close: sseSend of the buffer, then res.end() or listeners.add
GetLogs_Attach(h) ==
  /\ BagIn(h, pending)
  /\ h.op = "logs"
  /\ LET l == h.run
         r == res[l].run
         tail == [kind |-> "tail", data |-> h.buf]
     IN  IF res[l].follow
         THEN /\ res' = [res EXCEPT ![l].frames = Append(@, tail), ![l].state = "following",
                                    ![l].at = h.at]
              /\ run' = [run EXCEPT ![r].listeners = @ \cup {l}]
         ELSE /\ res' = [res EXCEPT ![l].frames = Append(@, tail), ![l].state = "ended"]
              /\ UNCHANGED run
  /\ pending' = pending (-) SetToBag({h})
  /\ UNCHANGED <<now, IDLE_TIMEOUT_SEC, runs, containers, files, runsDirs,
                 events, guardVars, credsVars>>

\* the follower disconnects: req.on('close') deletes it from run.listeners
LogsClientClose(l) ==
  /\ res[l] # NoRes
  /\ res[l].state = "following"
  /\ res' = [res EXCEPT ![l].state = "closed"]
  /\ run' = [run EXCEPT ![res[l].run].listeners = @ \ {l}]
  /\ UNCHANGED <<now, IDLE_TIMEOUT_SEC, runs, containers, files, runsDirs,
                 events, pending, guardVars, credsVars>>

\* POST /runs/:id/input
Input(id) ==
  /\ IF id \notin runs
     THEN UNCHANGED run
     ELSE run' = [run EXCEPT ![id].lastActivityAt = now]
  /\ UNCHANGED <<now, IDLE_TIMEOUT_SEC, runs, containers, files, runsDirs, events, res,
                 pending, guardVars, credsVars>>

\* wss.on('connection') for /ws/runs/:id: the handlers of the socket close
\* over the run object that runs.get(id) returned
WsConnect(id) ==
  /\ id \in runs
  /\ ~run[id].ws
  /\ run' = [run EXCEPT ![id].ws = TRUE]
  /\ UNCHANGED <<now, IDLE_TIMEOUT_SEC, runs, containers, files, runsDirs, events, res,
                 pending, guardVars, credsVars>>

\* ws.on('message') of a socket connected to run id: the message (not a
\* resize control frame) is written to the attach stream of the run object
\* the socket holds, with no look at the registry; wsWrites counts the
\* writes to a stream that is open
WsMessage(id) ==
  /\ Started(id)
  /\ run[id].ws
  /\ run[id].attachStream = "open"
  /\ run[id].wsWrites < MaxWsWrites
  /\ run' = [run EXCEPT ![id].wsWrites = @ + 1]
  /\ UNCHANGED <<now, IDLE_TIMEOUT_SEC, runs, containers, files, runsDirs, events, res,
                 pending, guardVars, credsVars>>

\* POST /runs/:id/input with the outcome of run.attachStream.write drawn:
\* the call throws, or it returns.  A write to a stream that was ended or
\* destroyed is reported through the stream's 'error' event and does not
\* throw, so the handler goes on as after a write that was accepted.
InputWrite(id, throws) ==
  /\ IF id \notin runs \/ throws
     THEN UNCHANGED run
     ELSE run' = [run EXCEPT ![id].lastActivityAt = now]
  /\ UNCHANGED <<now, IDLE_TIMEOUT_SEC, runs, containers, files, runsDirs, events, res,
                 pending, guardVars, credsVars>>

\* the answer of POST /runs/:id/input
InputResponse(id, throws) ==
  IF id \notin runs THEN [op |-> "input", id |-> id, code |-> 404, error |-> "not found"]
  ELSE IF throws THEN [op |-> "input", id |-> id, code |-> 500, error |-> "write failed"]
  ELSE [op |-> "input", id |-> id, code |-> 200, error |-> "none"]

(***************************************************************************)
(* Terminal requests.  A handler suspended at an await is a record of the  *)
(* bag `pending`: op (stop, kill, close, idle), the run it looked up, and  *)
(* pc, the call it awaits.  `ok` is whether the runtime carries the call   *)
(* out; every such call is wrapped in .catch(() => {}).                    *)
(***************************************************************************)
Handler(op, id, pc) == SetToBag({[op |-> op, run |-> id, pc |-> pc]})

Suspend(op, id, pc) ==
  /\ BagCardinality(pending) < MaxPending
  /\ pending' = pending (+) Handler(op, id, pc)

At(op, id, pc) == BagIn([op |-> op, run |-> id, pc |-> pc], pending)

Resume(op, id, pc, next) == pending' = (pending (-) Handler(op, id, pc)) (+) Handler(op, id, next)

Return(op, id, pc) == pending' = pending (-) Handler(op, id, pc)

\* run.listeners.forEach(r => r.end())
EndListeners(rs, ls) ==
  [l \in LIds |-> IF l \in ls THEN [rs[l] EXCEPT !.state = "ended"] ELSE rs[l]]

\* the absent-run branch of DELETE /runs/:id, /kill and /close: the containers
\* labelled adz.runId=<id> are stopped (or killed) and removed, in one step;
\* 404 only when listContainers throws
Fallback(id, listOk) ==
  /\ id \notin runs
  /\ IF ~listOk \/ listByRunId(id) = {}
     THEN UNCHANGED containers
     ELSE \E ok1, ok2 \in BOOLEAN :
            containers' =
              [c \in CIds |-> IF c \in listByRunId(id)
                              THEN DriverRemove(DriverStop(containers, c, ok1), c, ok2)[c]
                              ELSE containers[c]]
  /\ UNCHANGED <<now, IDLE_TIMEOUT_SEC, runs, run, files, runsDirs, events, res,
                 pending, guardVars, credsVars>>

\* what the absent-run branch answers
FallbackResponse(op, id, listOk) ==
  IF listOk
  THEN [op |-> op, id |-> id, code |-> 200, removed |-> listByRunId(id) # {},
        fallback |-> TRUE]
  ELSE [op |-> op, id |-> id, code |-> 404, removed |-> FALSE, fallback |-> FALSE]

\* what a handler that found the run answers when it is done
DoneResponse(op, id) ==
  [op |-> op, id |-> id, code |-> 200, removed |-> TRUE, fallback |-> FALSE]

\* status, event, listeners closed, runs.delete: the synchronous end of the
\* stop and kill handlers
Finish(id, status, ev) ==
  /\ run' = [run EXCEPT ![id].status = status, ![id].listeners = {}]
  /\ events' = eventsBroadcast(events, id, ev)
  /\ res' = EndListeners(res, run[id].listeners)
  /\ runs' = runs \ {id}

\* the end of the close handler, which leaves run.status as it is
FinishClose(id) ==
  /\ run' = [run EXCEPT ![id].listeners = {}]
  /\ events' = eventsBroadcast(events, id, "run-closed")
  /\ res' = EndListeners(res, run[id].listeners)
  /\ runs' = runs \ {id}

\* ---- DELETE /runs/:id ----
DeleteRunFresh(id) ==
  /\ Suspend("stop", id, "stop")
  /\ UNCHANGED <<now, IDLE_TIMEOUT_SEC, runs, run, containers, files, runsDirs, events,
                 res, guardVars, credsVars>>

\* variant: a stop that treats a warm-exec run as a fresh one
DeleteRunExec_LikeFresh(id) == DeleteRunFresh(id)

\* the isExec branch: Ctrl-C and "exit\n" go to the stream, no await
DeleteRunExec(id) ==
  /\ Finish(id, "stopped", "run-stopped")
  /\ UNCHANGED <<now, IDLE_TIMEOUT_SEC, containers, files, runsDirs, pending, guardVars, credsVars>>

DeleteRun(id, listOk) ==
  IF id \notin runs THEN Fallback(id, listOk)
  ELSE IF run[id].isExec THEN DeleteRunExec(id)
  ELSE DeleteRunFresh(id)

DeleteRun_AfterStop(id, ok) ==
  /\ At("stop", id, "stop")
  /\ containers' = DriverStop(containers, run[id].containerId, ok)
  /\ Resume("stop", id, "stop", "remove")
  /\ UNCHANGED <<now, IDLE_TIMEOUT_SEC, runs, run, files, runsDirs, events, res, guardVars, credsVars>>

DeleteRun_AfterRemove(id, ok) ==
  /\ At("stop", id, "remove")
  /\ containers' = DriverRemove(containers, run[id].containerId, ok)
  /\ Finish(id, "stopped", "run-stopped")
  /\ Return("stop", id, "remove")
  /\ UNCHANGED <<now, IDLE_TIMEOUT_SEC, files, runsDirs, guardVars, credsVars>>

\* ---- POST /runs/:id/kill ----
\* the isExec branch awaits an exec of pkill inside the warm container
KillRun(id, listOk) ==
  IF id \notin runs THEN Fallback(id, listOk)
  ELSE /\ Suspend("kill", id, IF run[id].isExec THEN "exec" ELSE "kill")
       /\ UNCHANGED <<now, IDLE_TIMEOUT_SEC, runs, run, containers, files, runsDirs,
                      events, res, guardVars, credsVars>>

KillRun_AfterKill(id, ok) ==
  /\ At("kill", id, "kill")
  /\ containers' = DriverStop(containers, run[id].containerId, ok)
  /\ Resume("kill", id, "kill", "remove")
  /\ UNCHANGED <<now, IDLE_TIMEOUT_SEC, runs, run, files, runsDirs, events, res, guardVars, credsVars>>

\* variant: a failure of container.remove escapes the handler
KillRun_AfterRemove_Throws(id, ok) ==
  /\ At("kill", id, "remove")
  /\ containers' = DriverRemove(containers, run[id].containerId, ok)
  /\ IF ok THEN Finish(id, "killed", "run-killed") ELSE UNCHANGED <<runs, run, events, res>>
  /\ Return("kill", id, "remove")
  /\ UNCHANGED <<now, IDLE_TIMEOUT_SEC, files, runsDirs, guardVars, credsVars>>

KillRun_AfterRemove(id, ok) ==
  /\ At("kill", id, "remove")
  /\ containers' = DriverRemove(containers, run[id].containerId, ok)
  /\ Finish(id, "killed", "run-killed")
  /\ Return("kill", id, "remove")
  /\ UNCHANGED <<now, IDLE_TIMEOUT_SEC, files, runsDirs, guardVars, credsVars>>

KillRun_AfterExec(id) ==
  /\ At("kill", id, "exec")
  /\ Finish(id, "killed", "run-killed")
  /\ Return("kill", id, "exec")
  /\ UNCHANGED <<now, IDLE_TIMEOUT_SEC, containers, files, runsDirs, guardVars, credsVars>>

\* ---- POST /runs/:id/close ----
\* the isExec branch ends and destroys the attach stream, then awaits pkill
CloseRun(id, listOk) ==
  IF id \notin runs THEN Fallback(id, listOk)
  ELSE /\ Suspend("close", id, IF run[id].isExec THEN "exec" ELSE "kill")
       /\ run' = IF run[id].isExec THEN [run EXCEPT ![id].attachStream = "destroyed"]
                 ELSE run
       /\ UNCHANGED <<now, IDLE_TIMEOUT_SEC, runs, containers, files, runsDirs,
                      events, res, guardVars, credsVars>>

CloseRun_AfterKill(id, ok) ==
  /\ At("close", id, "kill")
  /\ containers' = DriverStop(containers, run[id].containerId, ok)
  /\ Resume("close", id, "kill", "remove")
  /\ UNCHANGED <<now, IDLE_TIMEOUT_SEC, runs, run, files, runsDirs, events, res, guardVars, credsVars>>

CloseRun_AfterRemove(id, ok) ==
  /\ At("close", id, "remove")
  /\ containers' = DriverRemove(containers, run[id].containerId, ok)
  /\ FinishClose(id)
  /\ Return("close", id, "remove")
  /\ UNCHANGED <<now, IDLE_TIMEOUT_SEC, files, runsDirs, guardVars, credsVars>>

CloseRun_AfterExec(id) ==
  /\ At("close", id, "exec")
  /\ FinishClose(id)
  /\ Return("close", id, "exec")
  /\ UNCHANGED <<now, IDLE_TIMEOUT_SEC, containers, files, runsDirs, guardVars, credsVars>>

(***************************************************************************)
(* Credentials: <creds>/.env and the readiness check.  A text is a         *)
(* sequence of characters; the name of a key counts as one character.  An  *)
(* env object is a sequence of [k, v] records in the order of its keys.    *)
(***************************************************************************)
\* text.split(/\r?\n/)
RECURSIVE SplitLines(_, _, _)
SplitLines(text, i, cur) ==
  IF i > Len(text) THEN <<cur>>
  ELSE IF text[i] = "\n" THEN <<cur>> \o SplitLines(text, i + 1, <<>>)
  ELSE SplitLines(text, i + 1, Append(cur, text[i]))

\* String.prototype.trim, with " " for the white space
RECURSIVE trim(_)
trim(s) ==
  IF s = <<>> THEN s
  ELSE IF Head(s) = " " THEN trim(Tail(s))
  ELSE IF s[Len(s)] = " " THEN trim(SubSeq(s, 1, Len(s) - 1))
  ELSE s

\* String.prototype.indexOf, from 1; 0 when ch does not occur
indexOf(s, ch) ==
  IF \E i \in 1..Len(s) : s[i] = ch
  THEN Min({i \in 1..Len(s) : s[i] = ch}) ELSE 0

\* env[key] = val: an existing key keeps its place
Put(env, k, v) ==
  IF \E i \in 1..Len(env) : env[i].k = k
  THEN [i \in 1..Len(env) |-> IF env[i].k = k THEN [k |-> k, v |-> v] ELSE env[i]]
  ELSE Append(env, [k |-> k, v |-> v])

\* the surrounding quotes of a value are stripped, if present
StripQuotes(val) ==
  IF val # <<>> /\ ( (Head(val) = "\"" /\ val[Len(val)] = "\"")
                    \/ (Head(val) = "'" /\ val[Len(val)] = "'") )
  THEN SubSeq(val, 2, Len(val) - 1) ELSE val

\* the body of parseDotEnv's loop for one line
ParseLine(env, line) ==
  LET trimmed == trim(line)
      idx == indexOf(trimmed, "=")
  IN  IF trimmed = <<>> \/ Head(trimmed) = "#" \/ idx = 0 THEN env
      ELSE Put(env, trim(SubSeq(trimmed, 1, idx - 1)),
               StripQuotes(SubSeq(trimmed, idx + 1, Len(trimmed))))

RECURSIVE ParseLines(_, _, _)
ParseLines(lines, i, env) ==
  IF i > Len(lines) THEN env ELSE ParseLines(lines, i + 1, ParseLine(env, lines[i]))

parseDotEnv(text) == ParseLines(SplitLines(text, 1, <<>>), 1, <<>>)

\* keys.map(k => `${k}=${obj[k]}`).join('\n') + (keys.length ? '\n' : '')
RECURSIVE serializeDotEnv(_)
serializeDotEnv(obj) ==
  IF obj = <<>> THEN <<>>
  ELSE Head(obj).k \o <<"=">> \o Head(obj).v \o <<"\n">> \o serializeDotEnv(Tail(obj))

\* readCredsEnv: a file that cannot be read counts as empty
readCredsEnv == IF ~envFile.exists THEN <<>> ELSE parseDotEnv(envFile.text)

\* { ...cur, ...updates }
RECURSIVE Overlay(_, _)
Overlay(cur, updates) ==
  IF updates = <<>> THEN cur
  ELSE Overlay(Put(cur, Head(updates).k, Head(updates).v), Tail(updates))

\* env[k]
ValueOf(env, k) ==
  IF \E i \in 1..Len(env) : env[i].k = k
  THEN env[CHOOSE i \in 1..Len(env) : env[i].k = k].v ELSE Undefined

\* the handler of POST /creds/write-env suspended at fsp.writeFile, holding
\* the env it has read and the updates
WriteEnvHandler(cur, updates) ==
  [op |-> "write-env", run |-> 0, pc |-> "write", cur |-> cur, updates |-> updates]

\* POST /creds/write-env up to the answer of readCredsEnv, with at most
\* `writers` handlers in flight
WriteEnv_Read(updates, writers) ==
  /\ BagCardinality(pending) < writers
  /\ pending' = pending (+) SetToBag({WriteEnvHandler(readCredsEnv, updates)})
  /\ UNCHANGED <<now, IDLE_TIMEOUT_SEC, runs, run, containers, files, runsDirs, events,
                 res, guardVars, credsVars>>

\* fsp.writeFile(envPath, serializeDotEnv({ ...cur, ...updates })) and the
\* answer, which is the env object written
WriteEnv_Write(h) ==
  /\ BagIn(h, pending)
  /\ envFile' = [exists |-> TRUE, text |-> serializeDotEnv(Overlay(h.cur, h.updates))]
  /\ credsOut' = [op |-> "write-env", updates |-> h.updates, next |-> Overlay(h.cur, h.updates)]
  /\ pending' = pending (-) SetToBag({h})
  /\ UNCHANGED <<now, IDLE_TIMEOUT_SEC, runs, run, containers, files, runsDirs, events,
                 res, guardVars, credDirs>>

\* the write-env handlers in flight
WriteEnvPending == {h \in BagToSet(pending) : h.op = "write-env"}

(***************************************************************************)
(* Readiness: checkReadiness(engine, credsPath) over the env file and the  *)
(* sub-directories of an allowed creds directory.                          *)
(***************************************************************************)
\* dirNonEmpty(path.join(credsPath, sub)): readdir answers at least one
\* entry; a directory that is missing or unreadable counts as empty
dirNonEmpty(sub) == sub \in credDirs

\* has(k): !!env[k], a key that is absent or has the empty value is not set
has(env, k) == ValueOf(env, <<k>>) \notin {Undefined, <<>>}

\* variant: the gemini rule without the gcloud directory
readyRule_NoGcloud(engine, env) ==
  CASE engine = "codex" -> has(env, "OPENAI_API_KEY") \/ dirNonEmpty("codex")
    [] engine = "gemini" -> has(env, "GEMINI_API_KEY") \/ dirNonEmpty("gemini")
    [] engine = "opencode" ->
         \/ has(env, "OPENAI_API_KEY") \/ has(env, "ANTHROPIC_API_KEY")
         \/ has(env, "GEMINI_API_KEY") \/ dirNonEmpty("opencode")

\* result.ready of the switch on the engine
readyRule(engine, env) ==
  CASE engine = "codex" -> has(env, "OPENAI_API_KEY") \/ dirNonEmpty("codex")
    [] engine = "gemini" ->
         has(env, "GEMINI_API_KEY") \/ dirNonEmpty("gemini") \/ dirNonEmpty("gcloud")
    [] engine = "opencode" ->
         \/ has(env, "OPENAI_API_KEY") \/ has(env, "ANTHROPIC_API_KEY")
         \/ has(env, "GEMINI_API_KEY") \/ dirNonEmpty("opencode")

\* if (!result.ready) result.reasons.push(...)
reasonsOf(engine, ready) ==
  IF ready THEN <<>>
  ELSE CASE engine = "codex" -> <<"Codex needs ChatGPT sign-in or OPENAI_API_KEY">>
         [] engine = "gemini" -> <<"Gemini needs API key, device login, or Vertex ADC">>
         [] engine = "opencode" -> <<"OpenCode needs a provider API key">>

\* checkReadiness on an allowed creds directory: it throws on an engine that
\* is not known, and returns the readiness record otherwise
CheckReadiness(engine) ==
  /\ credsOut' =
       IF engine \notin ENGINES
       THEN [op |-> "check-threw", engine |-> engine, message |-> "invalid engine"]
       ELSE [op |-> "check", engine |-> engine,
             ready |-> readyRule(engine, readCredsEnv),
             reasons |-> reasonsOf(engine, readyRule(engine, readCredsEnv))]
  /\ UNCHANGED <<orchVars, guardVars, envFile, credDirs>>

\* the sub-directories the switch of checkReadiness looks into for an engine
DirsOf(engine) ==
  CASE engine = "codex" -> {"codex"}
    [] engine = "gemini" -> {"gemini", "gcloud"}
    [] engine = "opencode" -> {"opencode"}

\* result.ready over the env object and the non-empty directories that
\* readCredsEnv and dirNonEmpty answered
readyRule_Seen(engine, env, dirs) ==
  CASE engine = "codex" -> has(env, "OPENAI_API_KEY") \/ "codex" \in dirs
    [] engine = "gemini" ->
         has(env, "GEMINI_API_KEY") \/ "gemini" \in dirs \/ "gcloud" \in dirs
    [] engine = "opencode" ->
         \/ has(env, "OPENAI_API_KEY") \/ has(env, "ANTHROPIC_API_KEY")
         \/ has(env, "GEMINI_API_KEY") \/ "opencode" \in dirs

\* checkReadiness of a known engine while the file system fails calls:
\* readFile of an existing .env rejects when envFails, and readdir of the
\* sub-directories in dirFails rejects.  `catch (_) { return {}; }` and
\* `catch (_) { return false; }` turn the failures into an empty env object
\* and an empty directory.  ioFailed records that a call failed; it is not
\* part of the answer.
CheckReadiness_IOFails(engine, envFails, dirFails) ==
  LET env  == IF envFails THEN <<>> ELSE readCredsEnv
      dirs == credDirs \ dirFails
  IN  /\ engine \in ENGINES
      /\ envFails => envFile.exists
      /\ dirFails \subseteq (credDirs \cap DirsOf(engine))
      /\ credsOut' = [op |-> "check-io", engine |-> engine,
                      ready |-> readyRule_Seen(engine, env, dirs),
                      reasons |-> reasonsOf(engine, readyRule_Seen(engine, env, dirs)),
                      ioFailed |-> (envFails \/ dirFails # {})]
      /\ UNCHANGED <<orchVars, guardVars, envFile, credDirs>>

(***************************************************************************)
(* GET /runs.  The handler walks runs.values(), an iterator that follows    *)
(* the Map as it changes: entries are visited in insertion order, which is *)
(* the order of the run ids here; an entry deleted before the iterator     *)
(* reaches it is skipped and one added behind the iterator is visited.     *)
(* The handler holds the id it visited last (run) and the ids it pushed.   *)
(***************************************************************************)
ListHandler(pos, list) == [op |-> "list", run |-> pos, pc |-> "status", list |-> list]

ListPending == {h \in BagToSet(pending) : h.op = "list"}

\* the entry the iterator yields after position pos, 0 when it is exhausted
NextEntry(rs, pos) ==
  IF \E r \in rs : r > pos THEN Min({r \in rs : r > pos}) ELSE 0

\* the loop from position pos up to its next await: a warm-exec run is
\* pushed at once, a fresh run makes the handler await resolveStatus
RECURSIVE ListLoop(_, _)
ListLoop(pos, list) ==
  LET r == NextEntry(runs, pos)
  IN  IF r = 0 THEN [pc |-> "done", pos |-> pos, list |-> list]
      ELSE IF run[r].isExec THEN ListLoop(r, list \cup {r})
      ELSE [pc |-> "await", pos |-> r, list |-> list]

\* GET /runs up to its first await, or to its answer when it meets none
ListRuns ==
  /\ ListPending = {}
  /\ IF ListLoop(0, {}).pc = "done"
     THEN UNCHANGED pending
     ELSE /\ BagCardinality(pending) < MaxPending
          /\ pending' = pending (+) SetToBag({ListHandler(ListLoop(0, {}).pos,
                                                          ListLoop(0, {}).list)})
  /\ UNCHANGED <<now, IDLE_TIMEOUT_SEC, runs, run, containers, files, runsDirs, events,
                 res, guardVars, credsVars>>

\* resolveStatus answered or threw: the run the handler holds is pushed,
\* whether or not it is still in the Map, and the loop goes on
ListRuns_AfterStatus(h) ==
  /\ BagIn(h, pending)
  /\ h.op = "list"
  /\ LET nxt == ListLoop(h.run, h.list \cup {h.run})
     IN  pending' = IF nxt.pc = "done" THEN pending (-) SetToBag({h})
                    ELSE (pending (-) SetToBag({h}))
                           (+) SetToBag({ListHandler(nxt.pos, nxt.list)})
  /\ UNCHANGED <<now, IDLE_TIMEOUT_SEC, runs, run, containers, files, runsDirs, events,
                 res, guardVars, credsVars>>

\* what GET /runs knows of its own call: the contents the registry has had
\* since the call was accepted (snaps), and the runIds of res.json(list)
\* once it has answered (code 200)
ListCall(code, snaps, ids) == [op |-> "list", code |-> code, snaps |-> snaps, ids |-> ids]

ListRunsAnswer ==
  IF ListLoop(0, {}).pc = "done" THEN ListCall(200, {runs}, ListLoop(0, {}).list)
  ELSE ListCall(0, {runs}, {})

ListRuns_AfterStatusAnswer(h) ==
  LET nxt == ListLoop(h.run, h.list \cup {h.run})
  IN  IF nxt.pc = "done" THEN ListCall(200, resp.snaps, nxt.list) ELSE resp

\* the registry after a step of another handler, seen by a call in flight
ListObserves(rs) ==
  IF resp.op = "list" /\ resp.code = 0 THEN [resp EXCEPT !.snaps = @ \cup {rs}] ELSE resp

(***************************************************************************)
(* GET /events: the bus's subscriber.                                      *)
(***************************************************************************)
\* how many events have been broadcast for each run
BusMarks == [r \in RunIds |-> Len(events[r])]

\* the events broadcast so far as frames, run after run
RECURSIVE LogFrames(_, _)
LogFrames(r, i) ==
  IF r > MaxRunIds THEN <<>>
  ELSE IF i > Len(events[r]) THEN LogFrames(r + 1, 1)
  ELSE <<[run |-> r, name |-> events[r][i]]>> \o LogFrames(r, i + 1)

\* variant: a subscription that starts with a replay of what was broadcast
Subscribe_Replay ==
  /\ events[BusClient].state = "none"
  /\ events' = [events EXCEPT ![BusClient] =
                  [state |-> "open", frames |-> LogFrames(1, 1), from |-> BusMarks,
                   to |-> BusMarks]]
  /\ UNCHANGED <<now, IDLE_TIMEOUT_SEC, runs, run, containers, files, runsDirs, res,
                 pending, guardVars, credsVars>>

\* app.get('/events'): headers, eventClients.add(res); nothing is written
Subscribe ==
  /\ events[BusClient].state = "none"
  /\ events' = [events EXCEPT ![BusClient] =
                  [state |-> "open", frames |-> <<>>, from |-> BusMarks, to |-> BusMarks]]
  /\ UNCHANGED <<now, IDLE_TIMEOUT_SEC, runs, run, containers, files, runsDirs, res,
                 pending, guardVars, credsVars>>

\* req.on('close'): eventClients.delete(res)
Unsubscribe ==
  /\ events[BusClient].state = "open"
  /\ events' = [events EXCEPT ![BusClient].state = "closed", ![BusClient].to = BusMarks]
  /\ UNCHANGED <<now, IDLE_TIMEOUT_SEC, runs, run, containers, files, runsDirs, res,
                 pending, guardVars, credsVars>>

(***************************************************************************)
(* Bulk operations: POST /runs/stop-all and POST /runs/kill-all.  The      *)
(* handler is a record of `pending` with the containers it has yet to      *)
(* visit (todo) and how many it has counted.                               *)
(***************************************************************************)
BulkOps == {"stop-all", "kill-all"}

\* listAdzContainers: every container, running or not, with an adz label
listAdzContainers ==
  {c \in CIds : containers[c] # NoContainer /\ containers[c].state \in {"created", "running", "exited"}}

\* variant: a loop that does not skip warm containers
BulkTargets_All(all, includeWarm) == all

\* `if (warm && !includeWarm) continue;` over the listed containers
BulkTargets(all, includeWarm) ==
  {c \in all : ~(containers[c].labels.warm /\ ~includeWarm)}

BulkHandler(op, includeWarm, todo, count) ==
  [op |-> op, run |-> 0, pc |-> "loop", includeWarm |-> includeWarm, todo |-> todo,
   count |-> count]

\* the handler up to its first await inside the loop
BulkAll(op, includeWarm) ==
  /\ BagCardinality(pending) < MaxPending
  /\ pending' = pending (+)
        SetToBag({BulkHandler(op, includeWarm, BulkTargets(listAdzContainers, includeWarm), 0)})
  /\ UNCHANGED <<now, IDLE_TIMEOUT_SEC, runs, run, containers, files, runsDirs, events,
                 res, guardVars, credsVars>>

\* one round of the loop: stop (or kill) and remove container c, each call
\* with its failure swallowed; count++
BulkAll_Visit(h, c, ok1, ok2) ==
  /\ BagIn(h, pending)
  /\ c \in h.todo
  /\ containers' = DriverRemove(DriverStop(containers, c, ok1), c, ok2)
  /\ pending' = (pending (-) SetToBag({h}))
                   (+) SetToBag({BulkHandler(h.op, h.includeWarm, h.todo \ {c}, h.count + 1)})
  /\ UNCHANGED <<now, IDLE_TIMEOUT_SEC, runs, run, files, runsDirs, events, res,
                 guardVars, credsVars>>

\* after the loop: runs.clear() and the answer
BulkAll_End(h) ==
  /\ BagIn(h, pending)
  /\ h.todo = {}
  /\ runs' = {}
  /\ pending' = pending (-) SetToBag({h})
  /\ UNCHANGED <<now, IDLE_TIMEOUT_SEC, run, containers, files, runsDirs, events, res,
                 guardVars, credsVars>>

\* the answer of a bulk operation
BulkResponse(h) ==
  [op |-> h.op, code |-> 200, count |-> h.count, includeWarm |-> h.includeWarm]

\* the bulk handlers that are suspended
BulkPending == {h \in BagToSet(pending) : h.op \in BulkOps}

(***************************************************************************)
(* The idle reaper (setInterval) and autoStopRun.                          *)
(***************************************************************************)
\* the runs the sweep finds idle
IdleRuns ==
  {r \in runs : /\ run[r].status = "running"
                /\ run[r].lastActivityAt # 0
                /\ now - run[r].lastActivityAt >= IDLE_TIMEOUT_SEC}

\* variant: a reaper that is installed whatever IDLE_TIMEOUT_SEC is
ReaperSweep_AlwaysOn ==
  /\ IdleRuns # {}
  /\ BagCardinality(pending) + Cardinality(IdleRuns) <= MaxPending
  /\ pending' = pending (+) SetToBag({[op |-> "idle", run |-> r, pc |-> "append"] : r \in IdleRuns})
  /\ UNCHANGED <<now, IDLE_TIMEOUT_SEC, runs, run, containers, files, runsDirs, events,
                 res, guardVars, credsVars>>

\* one sweep: autoStopRun(run) is called for every idle run and runs up to
\* its first await, the appendFile of the marker
ReaperSweep ==
  /\ IDLE_TIMEOUT_SEC > 0
  /\ IdleRuns # {}
  /\ BagCardinality(pending) + Cardinality(IdleRuns) <= MaxPending
  /\ pending' = pending (+) SetToBag({[op |-> "idle", run |-> r, pc |-> "append"] : r \in IdleRuns})
  /\ UNCHANGED <<now, IDLE_TIMEOUT_SEC, runs, run, containers, files, runsDirs, events,
                 res, guardVars, credsVars>>

\* "[[AUTO-STOP]] idle timeout exceeded"
AutoStopFrame == << [kind |-> "autostop", data |-> 0] >>

\* autoStopRun after the appendFile: the marker goes to the listeners, which
\* are closed; a warm run gets Ctrl-C and "exit\n" and is done, a fresh run's
\* container.stop is issued
AutoStop_AfterAppend(r) ==
  /\ At("idle", r, "append")
  /\ files' = AppendFile(files, run[r].transcriptPath,
                         [run |-> r, kind |-> "autostop", data |-> 0])
  /\ res' = WriteAndEnd(res, run[r].listeners, AutoStopFrame)
  /\ IF run[r].isExec
     THEN /\ run' = [run EXCEPT ![r].listeners = {}, ![r].status = "stopped"]
          /\ events' = eventsBroadcast(events, r, "run-idle-stopped")
          /\ Return("idle", r, "append")
     ELSE /\ run' = [run EXCEPT ![r].listeners = {}]
          /\ UNCHANGED events
          /\ Resume("idle", r, "append", "stop")
  /\ UNCHANGED <<now, IDLE_TIMEOUT_SEC, runs, containers, runsDirs, guardVars, credsVars>>

AutoStop_AfterStop(r, ok) ==
  /\ At("idle", r, "stop")
  /\ containers' = DriverStop(containers, run[r].containerId, ok)
  /\ Resume("idle", r, "stop", "remove")
  /\ UNCHANGED <<now, IDLE_TIMEOUT_SEC, runs, run, files, runsDirs, events, res, guardVars, credsVars>>

\* the run stays in the registry: autoStopRun has no runs.delete
AutoStop_AfterRemove(r, ok) ==
  /\ At("idle", r, "remove")
  /\ containers' = DriverRemove(containers, run[r].containerId, ok)
  /\ run' = [run EXCEPT ![r].status = "stopped"]
  /\ events' = eventsBroadcast(events, r, "run-idle-stopped")
  /\ Return("idle", r, "remove")
  /\ UNCHANGED <<now, IDLE_TIMEOUT_SEC, runs, files, runsDirs, res, guardVars, credsVars>>

\* the clock advances
Tick ==
  /\ now < MaxTime
  /\ now' = now + 1
  /\ UNCHANGED <<IDLE_TIMEOUT_SEC, runs, run, containers, files, runsDirs, events, res,
                 pending, guardVars, credsVars>>

(***************************************************************************)
(* The orchestrator's specification.  It does not observe the answers, so  *)
(* `resp` stays as it is.                                                  *)
(***************************************************************************)
Next ==
  \/ \E req \in StartRequests : RunsLeft /\ StartRun(req) /\ HostFits' /\ UNCHANGED resp
  \/ \E req \in EnsureRequests : HostLeft /\ EnsureWarm(req) /\ UNCHANGED resp
  \/ \E c \in CIds : WarmDelete(c) /\ UNCHANGED resp
  \/ \E r \in OrchRunIds : OnData(r) /\ UNCHANGED resp
  \/ \E r \in OrchRunIds : WarmStreamEnd(r) /\ UNCHANGED resp
  \/ \E c \in CIds : ContainerExit(c) /\ UNCHANGED resp
  \/ \E c \in CIds : AutoRemove(c) /\ UNCHANGED resp
  \/ \E r \in OrchRunIds : WaitHandler(r) /\ UNCHANGED resp
  \/ \E id \in OrchRunIds, l \in LIds, follow \in BOOLEAN : GetLogs(id, l, follow) /\ UNCHANGED resp
  \/ \E l \in LIds : GetLogsTail(l) /\ UNCHANGED resp
  \/ \E l \in LIds : LogsClientClose(l) /\ UNCHANGED resp
  \/ \E id \in OrchRunIds : Input(id) /\ UNCHANGED resp
  \/ \E id \in OrchRunIds, listOk \in BOOLEAN : DeleteRun(id, listOk) /\ UNCHANGED resp
  \/ \E id \in OrchRunIds, ok \in BOOLEAN : DeleteRun_AfterStop(id, ok) /\ UNCHANGED resp
  \/ \E id \in OrchRunIds, ok \in BOOLEAN : DeleteRun_AfterRemove(id, ok) /\ UNCHANGED resp
  \/ \E id \in OrchRunIds, listOk \in BOOLEAN : KillRun(id, listOk) /\ UNCHANGED resp
  \/ \E id \in OrchRunIds, ok \in BOOLEAN : KillRun_AfterKill(id, ok) /\ UNCHANGED resp
  \/ \E id \in OrchRunIds, ok \in BOOLEAN : KillRun_AfterRemove(id, ok) /\ UNCHANGED resp
  \/ \E id \in OrchRunIds : KillRun_AfterExec(id) /\ UNCHANGED resp
  \/ \E id \in OrchRunIds, listOk \in BOOLEAN : CloseRun(id, listOk) /\ UNCHANGED resp
  \/ \E id \in OrchRunIds, ok \in BOOLEAN : CloseRun_AfterKill(id, ok) /\ UNCHANGED resp
  \/ \E id \in OrchRunIds, ok \in BOOLEAN : CloseRun_AfterRemove(id, ok) /\ UNCHANGED resp
  \/ \E id \in OrchRunIds : CloseRun_AfterExec(id) /\ UNCHANGED resp
  \/ ReaperSweep /\ UNCHANGED resp
  \/ \E r \in OrchRunIds : AutoStop_AfterAppend(r) /\ UNCHANGED resp
  \/ \E r \in OrchRunIds, ok \in BOOLEAN : AutoStop_AfterStop(r, ok) /\ UNCHANGED resp
  \/ \E r \in OrchRunIds, ok \in BOOLEAN : AutoStop_AfterRemove(r, ok) /\ UNCHANGED resp
  \/ Tick /\ UNCHANGED resp

Spec == Init /\ [][Next]_vars

(***************************************************************************)
(* The warm pool: concurrent POST /warm/ensure and POST /runs, over        *)
(* requests that spell the same workspace in two ways.                     *)
(***************************************************************************)
PoolWorkspaces == { <<"/", "w">>, <<"/", "w", "/">> }

PoolStartRequests ==
  [engine : {"codex"}, workspace : PoolWorkspaces, creds : ALLOW_CREDS_ROOTS,
   preferWarm : BOOLEAN]

PoolEnsureRequests ==
  [engine : {"codex"}, workspace : PoolWorkspaces, creds : ALLOW_CREDS_ROOTS]

NextPool ==
  \/ \E req \in PoolEnsureRequests : EnsureWarm_Find(req) /\ UNCHANGED resp
  \/ \E req \in PoolEnsureRequests : EnsureWarm_Create(req) /\ UNCHANGED resp
  \/ \E req \in PoolStartRequests : StartRun(req) /\ RunsFit' /\ UNCHANGED resp
  \/ \E c \in CIds : WarmDelete(c) /\ UNCHANGED resp
  \/ \E c \in CIds : ContainerExit(c) /\ UNCHANGED resp
  \/ \E c \in CIds : AutoRemove(c) /\ UNCHANGED resp

SpecPool == Init /\ [][NextPool]_vars

(***************************************************************************)
(* The output pump with log followers whose responses can fail on write.   *)
(***************************************************************************)
NextPump ==
  \/ \E req \in StartRequests : StartRun(req) /\ RunsFit' /\ HostFits' /\ UNCHANGED resp
  \/ \E id \in RunIds, l \in LIds, follow \in BOOLEAN : GetLogs(id, l, follow) /\ UNCHANGED resp
  \/ \E l \in LIds : GetLogsTail(l) /\ UNCHANGED resp
  \/ \E l \in LIds : LogsClientClose(l) /\ UNCHANGED resp
  \/ \E r \in RunIds : OnData(r) /\ UNCHANGED resp
  \/ \E r \in RunIds, bad \in LIds, fallbackOk \in BOOLEAN :
        OnData_WriteFails(r, bad, fallbackOk) /\ UNCHANGED resp
  \/ Tick /\ UNCHANGED resp

SpecPump == Init /\ [][NextPump]_vars

(***************************************************************************)
(* Activity of a Run: output chunks, and input over HTTP and over the      *)
(* terminal socket, as the clock advances and the reaper sweeps.           *)
(***************************************************************************)
NextActivity ==
  \/ \E req \in StartRequests : StartRun(req) /\ RunsFit' /\ HostFits' /\ UNCHANGED resp
  \/ \E req \in EnsureRequests : EnsureWarm(req) /\ HostFits' /\ UNCHANGED resp
  \/ \E r \in RunIds : OnData(r) /\ UNCHANGED resp
  \/ \E id \in RunIds : Input(id) /\ UNCHANGED resp
  \/ \E id \in RunIds : WsConnect(id) /\ UNCHANGED resp
  \/ \E id \in RunIds : WsMessage(id) /\ UNCHANGED resp
  \/ ReaperSweep /\ UNCHANGED resp
  \/ \E r \in RunIds : AutoStop_AfterAppend(r) /\ UNCHANGED resp
  \/ \E r \in RunIds, ok \in BOOLEAN : AutoStop_AfterStop(r, ok) /\ UNCHANGED resp
  \/ \E r \in RunIds, ok \in BOOLEAN : AutoStop_AfterRemove(r, ok) /\ UNCHANGED resp
  \/ Tick /\ UNCHANGED resp

SpecActivity == Init /\ [][NextActivity]_vars

(***************************************************************************)
(* The orchestrator as configured either way: with the reaper disabled     *)
(* (IDLE_TIMEOUT_SEC=0) or with the idle timeout of the model.             *)
(***************************************************************************)
InitConfig ==
  /\ \E timeout \in {0, IdleTimeoutCfg} : OrchInitWith(timeout)
  /\ gPath = <<>>
  /\ gOut = NoVerdict
  /\ CredsInit

SpecConfig == InitConfig /\ [][Next]_vars

(***************************************************************************)
(* The orchestrator under the scheduling Node guarantees: the clock        *)
(* advances, the interval timer of the reaper fires, a pending await       *)
(* resolves and its continuation runs, and a stream or wait callback that  *)
(* is due runs.  Requests of clients and exits of engines may or may not   *)
(* come.                                                                   *)
(***************************************************************************)
Scheduling ==
  /\ WF_vars(Tick /\ UNCHANGED resp)
  /\ WF_vars(ReaperSweep /\ UNCHANGED resp)
  /\ \A r \in OrchRunIds :
       /\ WF_vars(AutoStop_AfterAppend(r) /\ UNCHANGED resp)
       /\ WF_vars((\E ok \in BOOLEAN : AutoStop_AfterStop(r, ok)) /\ UNCHANGED resp)
       /\ WF_vars((\E ok \in BOOLEAN : AutoStop_AfterRemove(r, ok)) /\ UNCHANGED resp)
       /\ WF_vars(WaitHandler(r) /\ UNCHANGED resp)
       /\ WF_vars((\E ok \in BOOLEAN : DeleteRun_AfterStop(r, ok)) /\ UNCHANGED resp)
       /\ WF_vars((\E ok \in BOOLEAN : DeleteRun_AfterRemove(r, ok)) /\ UNCHANGED resp)
       /\ WF_vars((\E ok \in BOOLEAN : KillRun_AfterKill(r, ok)) /\ UNCHANGED resp)
       /\ WF_vars((\E ok \in BOOLEAN : KillRun_AfterRemove(r, ok)) /\ UNCHANGED resp)
       /\ WF_vars(KillRun_AfterExec(r) /\ UNCHANGED resp)
       /\ WF_vars((\E ok \in BOOLEAN : CloseRun_AfterKill(r, ok)) /\ UNCHANGED resp)
       /\ WF_vars((\E ok \in BOOLEAN : CloseRun_AfterRemove(r, ok)) /\ UNCHANGED resp)
       /\ WF_vars(CloseRun_AfterExec(r) /\ UNCHANGED resp)

SpecLive == Init /\ [][Next]_vars /\ Scheduling

(***************************************************************************)
(* The request/response specification: the requests that are answered,     *)
(* each step recording in `resp` what it answers, and the container events *)
(* between them.  A handler suspended at an await has answered nothing yet.*)
(***************************************************************************)
StartRunAnswer(req) ==
  [op |-> "start", req |-> req, code |-> StartRunResponse(req).code,
   error |-> StartRunResponse(req).error]

DeleteRunResponse(id, listOk) ==
  IF id \notin runs THEN FallbackResponse("stop", id, listOk)
  ELSE IF run[id].isExec THEN DoneResponse("stop", id)
  ELSE NoResp

KillRunResponse(id, listOk) ==
  IF id \notin runs THEN FallbackResponse("kill", id, listOk) ELSE NoResp

CloseRunResponse(id, listOk) ==
  IF id \notin runs THEN FallbackResponse("close", id, listOk) ELSE NoResp

NextHttp ==
  \/ \E req \in HttpStartRequests : StartRun(req) /\ RunsFit' /\ HostFits' /\ resp' = StartRunAnswer(req)
  \/ \E req \in EnsureRequests : EnsureWarm(req) /\ HostFits' /\ resp' = EnsureWarmResponse(req)
  \/ \E c \in CIds : WarmDelete(c) /\ resp' = NoResp
  \/ \E r \in RunIds : WarmStreamEnd(r) /\ resp' = NoResp
  \/ \E c \in CIds : ContainerExit(c) /\ resp' = NoResp
  \/ \E c \in CIds : AutoRemove(c) /\ resp' = NoResp
  \/ \E r \in RunIds : WaitHandler(r) /\ resp' = NoResp
  \/ \E id \in RunIds, listOk \in BOOLEAN :
        DeleteRun(id, listOk) /\ resp' = DeleteRunResponse(id, listOk)
  \/ \E id \in RunIds, ok \in BOOLEAN : DeleteRun_AfterStop(id, ok) /\ resp' = NoResp
  \/ \E id \in RunIds, ok \in BOOLEAN :
        DeleteRun_AfterRemove(id, ok) /\ resp' = DoneResponse("stop", id)
  \/ \E id \in RunIds, listOk \in BOOLEAN :
        KillRun(id, listOk) /\ resp' = KillRunResponse(id, listOk)
  \/ \E id \in RunIds, ok \in BOOLEAN : KillRun_AfterKill(id, ok) /\ resp' = NoResp
  \/ \E id \in RunIds, ok \in BOOLEAN :
        KillRun_AfterRemove(id, ok) /\ resp' = DoneResponse("kill", id)
  \/ \E id \in RunIds : KillRun_AfterExec(id) /\ resp' = DoneResponse("kill", id)
  \/ \E id \in RunIds, listOk \in BOOLEAN :
        CloseRun(id, listOk) /\ resp' = CloseRunResponse(id, listOk)
  \/ \E id \in RunIds, ok \in BOOLEAN : CloseRun_AfterKill(id, ok) /\ resp' = NoResp
  \/ \E id \in RunIds, ok \in BOOLEAN :
        CloseRun_AfterRemove(id, ok) /\ resp' = DoneResponse("close", id)
  \/ \E id \in RunIds : CloseRun_AfterExec(id) /\ resp' = DoneResponse("close", id)

SpecHttp == Init /\ [][NextHttp]_vars

(***************************************************************************)
(* Input over HTTP to Runs whose stream is open, ended or destroyed.       *)
(***************************************************************************)
NextInput ==
  \/ \E req \in StartRequests : StartRun(req) /\ RunsFit' /\ HostFits' /\ resp' = StartRunAnswer(req)
  \/ \E req \in EnsureRequests : EnsureWarm(req) /\ HostFits' /\ resp' = EnsureWarmResponse(req)
  \/ \E id \in RunIds, throws \in BOOLEAN :
        InputWrite(id, throws) /\ resp' = InputResponse(id, throws)
  \/ \E r \in RunIds : WarmStreamEnd(r) /\ resp' = NoResp
  \/ \E id \in RunIds, listOk \in BOOLEAN :
        CloseRun(id, listOk) /\ resp' = CloseRunResponse(id, listOk)
  \/ \E id \in RunIds, ok \in BOOLEAN : CloseRun_AfterKill(id, ok) /\ resp' = NoResp
  \/ \E id \in RunIds, ok \in BOOLEAN :
        CloseRun_AfterRemove(id, ok) /\ resp' = DoneResponse("close", id)
  \/ \E id \in RunIds : CloseRun_AfterExec(id) /\ resp' = DoneResponse("close", id)
  \/ Tick /\ resp' = NoResp

SpecInput == Init /\ [][NextInput]_vars

(***************************************************************************)
(* POST /runs against a container runtime that may fail a call.            *)
(***************************************************************************)
NextDriver ==
  \/ \E req \in HttpStartRequests : StartRun(req) /\ RunsFit' /\ resp' = StartRunAnswer(req)
  \/ \E req \in HttpStartRequests, stage \in DriverStages :
        StartRun_DriverFails(req, stage) /\ resp' = StartRun_DriverFailsAnswer(req, stage)
  \/ \E c \in CIds : ContainerExit(c) /\ resp' = NoResp
  \/ \E c \in CIds : AutoRemove(c) /\ resp' = NoResp
  \/ Tick /\ resp' = NoResp

SpecDriver == Init /\ [][NextDriver]_vars

(***************************************************************************)
(* GET /runs next to starts and stops of fresh Runs.                       *)
(***************************************************************************)
FreshStartRequests ==
  [engine : {"codex"}, workspace : ALLOW_WORKSPACE_ROOTS, creds : ALLOW_CREDS_ROOTS,
   preferWarm : {FALSE}]

NextList ==
  \/ \E req \in FreshStartRequests : StartRun(req) /\ resp' = ListObserves(runs')
  \/ \E id \in RunIds : id \in runs /\ DeleteRun(id, TRUE) /\ resp' = ListObserves(runs')
  \/ \E id \in RunIds, ok \in BOOLEAN :
        DeleteRun_AfterStop(id, ok) /\ resp' = ListObserves(runs')
  \/ \E id \in RunIds, ok \in BOOLEAN :
        DeleteRun_AfterRemove(id, ok) /\ resp' = ListObserves(runs')
  \/ ListRuns /\ resp' = ListRunsAnswer
  \/ \E h \in ListPending : ListRuns_AfterStatus(h) /\ resp' = ListRuns_AfterStatusAnswer(h)
  \/ Tick /\ resp' = ListObserves(runs')

SpecList == Init /\ [][NextList]_vars

(***************************************************************************)
(* The event bus with a subscriber that joins and leaves while Runs start, *)
(* print, exit and are stopped.                                            *)
(***************************************************************************)
NextEvents ==
  \/ \E req \in StartRequests : StartRun(req) /\ RunsFit' /\ HostFits' /\ UNCHANGED resp
  \/ \E req \in EnsureRequests : EnsureWarm(req) /\ HostFits' /\ UNCHANGED resp
  \/ \E r \in RunIds : OnData(r) /\ UNCHANGED resp
  \/ \E r \in RunIds : WarmStreamEnd(r) /\ UNCHANGED resp
  \/ \E c \in CIds : ContainerExit(c) /\ UNCHANGED resp
  \/ \E r \in RunIds : WaitHandler(r) /\ UNCHANGED resp
  \/ \E id \in RunIds : id \in runs /\ DeleteRun(id, TRUE) /\ UNCHANGED resp
  \/ \E id \in RunIds, ok \in BOOLEAN : DeleteRun_AfterStop(id, ok) /\ UNCHANGED resp
  \/ \E id \in RunIds, ok \in BOOLEAN : DeleteRun_AfterRemove(id, ok) /\ UNCHANGED resp
  \/ Subscribe /\ UNCHANGED resp
  \/ Unsubscribe /\ UNCHANGED resp

SpecEvents == Init /\ [][NextEvents]_vars

(***************************************************************************)
(* The terminal socket of a Run next to stop and kill.                     *)
(***************************************************************************)
NextSocket ==
  \/ \E req \in StartRequests : StartRun(req) /\ RunsFit' /\ HostFits' /\ UNCHANGED resp
  \/ \E req \in EnsureRequests : EnsureWarm(req) /\ HostFits' /\ UNCHANGED resp
  \/ \E id \in RunIds : WsConnect(id) /\ UNCHANGED resp
  \/ \E id \in RunIds : WsMessage(id) /\ UNCHANGED resp
  \/ \E r \in RunIds : WarmStreamEnd(r) /\ UNCHANGED resp
  \/ \E id \in RunIds : id \in runs /\ DeleteRun(id, TRUE) /\ UNCHANGED resp
  \/ \E id \in RunIds, ok \in BOOLEAN : DeleteRun_AfterStop(id, ok) /\ UNCHANGED resp
  \/ \E id \in RunIds, ok \in BOOLEAN : DeleteRun_AfterRemove(id, ok) /\ UNCHANGED resp
  \/ \E id \in RunIds : id \in runs /\ KillRun(id, TRUE) /\ UNCHANGED resp
  \/ \E id \in RunIds, ok \in BOOLEAN : KillRun_AfterKill(id, ok) /\ UNCHANGED resp
  \/ \E id \in RunIds, ok \in BOOLEAN : KillRun_AfterRemove(id, ok) /\ UNCHANGED resp
  \/ \E id \in RunIds : KillRun_AfterExec(id) /\ UNCHANGED resp

SpecSocket == Init /\ [][NextSocket]_vars

(***************************************************************************)
(* A follower that attaches while the Run prints: the handler of           *)
(* GET /runs/:id/logs taken await by await.                                *)
(***************************************************************************)
NextFollow ==
  \/ \E req \in StartRequests : StartRun(req) /\ RunsFit' /\ HostFits' /\ UNCHANGED resp
  \/ \E req \in EnsureRequests : EnsureWarm(req) /\ HostFits' /\ UNCHANGED resp
  \/ \E id \in RunIds, l \in LIds, follow \in BOOLEAN : GetLogs(id, l, follow) /\ UNCHANGED resp
  \/ \E l \in LIds : GetLogs_Read(l) /\ UNCHANGED resp
  \/ \E h \in LogsPending : GetLogs_Attach(h) /\ UNCHANGED resp
  \/ \E l \in LIds : LogsClientClose(l) /\ UNCHANGED resp
  \/ \E r \in RunIds : OnData(r) /\ UNCHANGED resp
  \/ Tick /\ UNCHANGED resp

SpecFollow == Init /\ [][NextFollow]_vars

(***************************************************************************)
(* Bulk operations over warm containers and the containers of Runs.        *)
(***************************************************************************)
NextBulk ==
  \/ \E req \in StartRequests : StartRun(req) /\ RunsFit' /\ resp' = StartRunAnswer(req)
  \/ \E req \in EnsureRequests : EnsureWarm(req) /\ resp' = EnsureWarmResponse(req)
  \/ \E op \in BulkOps, includeWarm \in BOOLEAN : BulkAll(op, includeWarm) /\ resp' = NoResp
  \/ \E h \in BulkPending, c \in CIds, ok1, ok2 \in BOOLEAN :
        BulkAll_Visit(h, c, ok1, ok2) /\ resp' = NoResp
  \/ \E h \in BulkPending : BulkAll_End(h) /\ resp' = BulkResponse(h)
  \/ \E c \in CIds : ContainerExit(c) /\ resp' = NoResp

SpecBulk == Init /\ [][NextBulk]_vars

(***************************************************************************)
(* Transcripts: Runs started one after the other, also within one clock    *)
(* reading, and their output.                                              *)
(***************************************************************************)
NextTranscript ==
  \/ \E req \in StartRequests : StartRun(req) /\ resp' = StartRunAnswer(req)
  \/ \E req \in EnsureRequests : EnsureWarm(req) /\ HostFits' /\ resp' = EnsureWarmResponse(req)
  \/ \E r \in RunIds : OnData(r) /\ resp' = NoResp
  \/ Tick /\ resp' = NoResp

SpecTranscript == Init /\ [][NextTranscript]_vars

(***************************************************************************)
(* The path guard's specification: a path the caller sends, and each       *)
(* operation that takes a host path applied to it.  The verdict is whether *)
(* the operation went on to use the path (accepted) or answered 400.       *)
(***************************************************************************)
GuardPaths == UNION { [1..n -> PathChars] : n \in 0..MaxPathLen }

\* a root of each allow-list, for the field of a request that is not under test
OkWorkspace == CHOOSE root \in ALLOW_WORKSPACE_ROOTS : TRUE

OkCreds == CHOOSE root \in ALLOW_CREDS_ROOTS : TRUE

\* GET /creds/check: only the presence of engine and creds is tested, then
\* path.resolve(creds) goes to checkReadiness
CredsCheckError(creds) == IF creds = <<>> THEN "engine and creds required" ELSE "none"

\* POST /creds/write-env: presence, then isAllowed(path.resolve(creds))
WriteEnvError(creds) ==
  IF creds = <<>> THEN "creds and updates required"
  ELSE IF ~isAllowed(resolve(creds), ALLOW_CREDS_ROOTS) THEN "creds not under allowed roots"
  ELSE "none"

Verdict(op, error) ==
  /\ gOut' = [op |-> op, accepted |-> (error = "none")]
  /\ UNCHANGED <<orchVars, gPath, credsVars>>

GuardStartWorkspace ==
  Verdict("start-workspace",
          StartRunError([engine |-> "codex", workspace |-> gPath, creds |-> OkCreds,
                         preferWarm |-> TRUE]))

GuardStartCreds ==
  Verdict("start-creds",
          StartRunError([engine |-> "codex", workspace |-> OkWorkspace, creds |-> gPath,
                         preferWarm |-> TRUE]))

GuardEnsureWorkspace ==
  Verdict("ensure-workspace",
          EnsureWarmError([engine |-> "codex", workspace |-> gPath, creds |-> OkCreds]))

GuardEnsureCreds ==
  Verdict("ensure-creds",
          EnsureWarmError([engine |-> "codex", workspace |-> OkWorkspace, creds |-> gPath]))

GuardCredsCheck == Verdict("creds-check", CredsCheckError(gPath))

GuardWriteEnv == Verdict("write-env", WriteEnvError(gPath))

\* path.join(run.workspace, '.runs'), with "r" standing for "runs"
runsDirOf(workspace) == resolve(workspace \o <<"/", ".", "r">>)

\* GET /runs/:id/file?path=<p> for a registered Run with this workspace
FileError(p, workspace) ==
  IF p = <<>> THEN "path required"
  ELSE IF ~isSubPath(resolve(p), workspace) /\ resolve(p) # runsDirOf(workspace)
       THEN "path outside workspace"
  ELSE "none"

\* the handler goes on to fsp.stat and fs.createReadStream only without error
GuardFile(workspace) ==
  /\ gOut' = [op |-> "file", accepted |-> (FileError(gPath, workspace) = "none"),
              workspace |-> workspace]
  /\ UNCHANGED <<orchVars, gPath, credsVars>>

InitGuard ==
  /\ OrchInit
  /\ gPath \in GuardPaths
  /\ gOut = NoVerdict
  /\ CredsInit

NextGuard ==
  \/ GuardStartWorkspace
  \/ GuardStartCreds
  \/ GuardEnsureWorkspace
  \/ GuardEnsureCreds
  \/ GuardCredsCheck
  \/ GuardWriteEnv

SpecGuard == InitGuard /\ [][NextGuard]_vars

(***************************************************************************)
(* File download: a path sent to GET /runs/:id/file of a Run whose         *)
(* workspace was given in either spelling.                                 *)
(***************************************************************************)
NextFile == \E workspace \in PoolWorkspaces : GuardFile(workspace)

SpecFile == InitGuard /\ [][NextFile]_vars

(***************************************************************************)
(* The env file: one write-env at a time over values with quotes and       *)
(* white space.                                                            *)
(***************************************************************************)
EnvKeys == {"OPENAI_API_KEY", "GEMINI_API_KEY"}

\* the empty value, a plain one, a quoted one, and white space on either side
EnvVals == { <<>>, <<"x">>, <<"\"", "x", "\"">>, <<" ", "x">>, <<"x", " ">> }

\* the updates objects with one key
EnvUpdates == { << [k |-> <<key>>, v |-> val] >> : key \in EnvKeys, val \in EnvVals }

NextEnv ==
  \/ \E updates \in EnvUpdates : WriteEnv_Read(updates, 1) /\ UNCHANGED resp
  \/ \E h \in WriteEnvPending : WriteEnv_Write(h) /\ UNCHANGED resp

SpecEnv == Init /\ [][NextEnv]_vars

(***************************************************************************)
(* The env file under concurrent write-env requests with plain values.     *)
(***************************************************************************)
RaceUpdates == { << [k |-> <<key>>, v |-> val] >> : key \in EnvKeys, val \in {<<"x">>, <<"y">>} }

NextEnvRace ==
  \/ \E updates \in RaceUpdates : WriteEnv_Read(updates, MaxPending) /\ UNCHANGED resp
  \/ \E h \in WriteEnvPending : WriteEnv_Write(h) /\ UNCHANGED resp

SpecEnvRace == Init /\ [][NextEnvRace]_vars

(***************************************************************************)
(* Readiness checks over the creds directories the server may be pointed   *)
(* at: an env file that is missing or holds any of the three keys with no  *)
(* value, an empty quoted value or a value, and any of the four            *)
(* sub-directories non-empty.                                              *)
(***************************************************************************)
ReadyKeyStates == {"absent", "empty", "quoted-empty", "value"}

KeyEntry(k, c) ==
  IF c = "absent" THEN <<>>
  ELSE << [k |-> <<k>>,
           v |-> CASE c = "empty" -> <<>>
                   [] c = "quoted-empty" -> <<"\"", "\"">>
                   [] c = "value" -> <<"x">>] >>

ReadyFiles ==
  {NoFile} \cup
  { [exists |-> TRUE,
     text |-> serializeDotEnv(KeyEntry("OPENAI_API_KEY", f[1])
                              \o KeyEntry("ANTHROPIC_API_KEY", f[2])
                              \o KeyEntry("GEMINI_API_KEY", f[3]))] :
      f \in [1..3 -> ReadyKeyStates] }

CredSubdirs == {"codex", "gemini", "gcloud", "opencode"}

ReadyEngines == ENGINES \cup {"bash"}

InitReady ==
  /\ OrchInit
  /\ gPath = <<>>
  /\ gOut = NoVerdict
  /\ envFile \in ReadyFiles
  /\ credDirs \in SUBSET CredSubdirs
  /\ credsOut = NoCredsOut

NextReady == \E engine \in ReadyEngines : CheckReadiness(engine)

SpecReady == InitReady /\ [][NextReady]_vars

(***************************************************************************)
(* Readiness checks on a file system that may fail a read.                 *)
(***************************************************************************)
NextReadyIO ==
  \E engine \in ENGINES, envFails \in BOOLEAN, dirFails \in SUBSET CredSubdirs :
     CheckReadiness_IOFails(engine, envFails, dirFails)

SpecReadyIO == InitReady /\ [][NextReadyIO]_vars


(***************************************************************************)
(* Properties.                                                             *)
(***************************************************************************)
\* the terminal lifecycle events broadcast for run r so far
TerminalEventsOf(r) == SelectSeq(events[r], LAMBDA e : e \in TerminalEvents)

\* those of them that a request or the reaper caused
RequestedStops == {"run-stopped", "run-killed", "run-closed", "run-idle-stopped"}

RequestedStopsOf(r) == SelectSeq(events[r], LAMBDA e : e \in RequestedStops)

\* some step of a terminal operation on run r: a stop, kill or close request
\* or a continuation of one, the reaper's stop, the end of the stream
TerminalStep(r) ==
  \E listOk, ok \in BOOLEAN :
    \/ DeleteRun(r, listOk) \/ DeleteRun_AfterStop(r, ok) \/ DeleteRun_AfterRemove(r, ok)
    \/ KillRun(r, listOk) \/ KillRun_AfterKill(r, ok) \/ KillRun_AfterRemove(r, ok)
    \/ KillRun_AfterExec(r)
    \/ CloseRun(r, listOk) \/ CloseRun_AfterKill(r, ok) \/ CloseRun_AfterRemove(r, ok)
    \/ CloseRun_AfterExec(r)
    \/ AutoStop_AfterAppend(r) \/ AutoStop_AfterStop(r, ok) \/ AutoStop_AfterRemove(r, ok)
    \/ WarmStreamEnd(r) \/ WaitHandler(r)

\* the last step of a stop, kill, close or idle stop of a fresh run, with the
\* runtime carrying out (ok) or failing the remove
LastTeardownStep(r, ok) ==
  \/ DeleteRun_AfterRemove(r, ok)
  \/ KillRun_AfterRemove(r, ok)
  \/ CloseRun_AfterRemove(r, ok)
  \/ AutoStop_AfterRemove(r, ok)

\* C1: every Run in the registry has status running; once a Run's status has
\* changed the Run is no longer in the registry.
C1_RegistryHoldsOnlyRunning == \A r \in runs : run[r].status = "running"

\* C2: over a Run's lifetime exactly one terminal event (run-exited,
\* run-stopped, run-killed, run-idle-stopped, run-closed) is emitted: never
\* two, and never none once the Run has terminated.
C2_ExactlyOneTerminalEvent ==
  \A r \in RunIds :
    Started(r) =>
      /\ Len(TerminalEventsOf(r)) <= 1
      /\ (run[r].status # "running" \/ r \notin runs) => Len(TerminalEventsOf(r)) = 1

\* C3: no step of a terminal operation on a warm-exec Run stops, kills or
\* removes the warm container the Run was exec'd into.
C3_WarmContainerUntouched ==
  [][\A r \in RunIds :
       (Started(r) /\ run[r].isExec /\ TerminalStep(r))
         => containers'[run[r].containerId] = containers[run[r].containerId]]_vars

\* a warm-exec Run was stopped by request and its warm container still runs
C3_Witness ==
  \E r \in RunIds :
    /\ Started(r) /\ run[r].isExec /\ r \notin runs
    /\ Len(RequestedStopsOf(r)) > 0
    /\ containers[run[r].containerId].state = "running"

ChunkDataOf(l) ==
  LET fr == SelectSeq(res[l].frames, LAMBDA f : f.kind = "chunk")
  IN  [i \in 1..Len(fr) |-> fr[i].data]

RootsOf(op) ==
  IF op \in {"start-workspace", "ensure-workspace"} THEN ALLOW_WORKSPACE_ROOTS
  ELSE ALLOW_CREDS_ROOTS

\* p is absolute and its normalized form is a root or lies below one,
\* component by component
WithinRoots(p, roots) ==
  /\ isAbsolute(p)
  /\ \E root \in roots :
       LET pp == ResolveParts(p)
           rp == ResolveParts(root)
       IN  Len(pp) >= Len(rp) /\ SubSeq(pp, 1, Len(rp)) = rp

InvalidStart(req) ==
  \/ req.engine \notin ENGINES
  \/ ~WithinRoots(req.workspace, ALLOW_WORKSPACE_ROOTS)
  \/ ~WithinRoots(req.creds, ALLOW_CREDS_ROOTS)

\* C7: an invalid start is answered with an error and has no effect: no Run,
\* no container, no transcript file, no .runs directory, no event.
C7_InvalidStartHasNoEffect ==
  [][(resp'.op = "start" /\ InvalidStart(resp'.req))
       => /\ resp'.code = 400
          /\ UNCHANGED <<runs, run, containers, files, runsDirs, events, pending>>]_vars

\* an invalid start was answered while a Run is registered
C7_Witness ==
  /\ resp.op = "start"
  /\ InvalidStart(resp.req)
  /\ resp.code = 400
  /\ runs # {}

\* C8: terminal transitions are single-firing: of the stop, kill, close and
\* idle-stop paths at most one carries out its transition on a Run, also
\* when a second request arrives while the first awaits the runtime.
C8_SingleFiring == \A r \in RunIds : Len(RequestedStopsOf(r)) <= 1

\* C9: a stop of a runId that is absent from the registry is answered 404
\* when no container carries the runId label; it is answered ok with
\* fallback:true only when one did, and then no such container is left.
C9_StopOfAbsentRun ==
  (resp.op = "stop" /\ resp.fallback)
    => resp.removed /\ listByRunId(resp.id) = {}

\* C10: when the idle reaper carries out the stop of a Run, the Run has been
\* idle for IDLE_TIMEOUT_SEC at that moment.
C10_StoppedOnlyWhenIdle ==
  [][\A r \in RunIds :
       AutoStop_AfterAppend(r) => now - run[r].lastActivityAt >= IDLE_TIMEOUT_SEC]_vars

\* run r has been without output and input for the idle timeout
IdleFor(r) == Started(r) /\ now - run[r].lastActivityAt >= IDLE_TIMEOUT_SEC

\* the engine of run r ended by itself
EndedByItself(r) == \E i \in 1..Len(events[r]) : events[r][i] = "run-exited"

\* C11: a running Run whose idle time has reached IDLE_TIMEOUT_SEC (> 0) and
\* that stays inactive (and whose engine keeps running) is eventually
\* removed from the registry.
C11_IdleRunEventuallyRemoved ==
  \A r \in RunIds :
    (IDLE_TIMEOUT_SEC > 0 /\ r \in runs /\ run[r].status = "running" /\ IdleFor(r))
      ~> (r \notin runs \/ ~IdleFor(r) \/ EndedByItself(r))

\* the [[AUTO-STOP]] marker is in some transcript or was sent to a follower
AutoStopMarked ==
  \/ \E path \in DOMAIN files :
       \E i \in 1..Len(files[path]) : files[path][i].kind = "autostop"
  \/ \E l \in LIds :
       res[l] # NoRes /\ \E i \in 1..Len(res[l].frames) : res[l].frames[i].kind = "autostop"

\* C12: with IDLE_TIMEOUT_SEC = 0 the reaper is disabled: autoStopRun never
\* runs, no run-idle-stopped event and no AUTO-STOP marker is produced,
\* however long a Run stays idle.
C12_ReaperDisabledAtZero ==
  IDLE_TIMEOUT_SEC = 0 =>
    /\ \A h \in BagToSet(pending) : h.op # "idle"
    /\ \A r \in RunIds : \A i \in 1..Len(events[r]) : events[r][i] # "run-idle-stopped"
    /\ ~AutoStopMarked

\* with the reaper disabled, a registered Run is still running after the
\* clock has run to its end without output or input
C12_Witness ==
  /\ IDLE_TIMEOUT_SEC = 0
  /\ now = MaxTime
  /\ \E r \in runs : run[r].status = "running" /\ run[r].lastActivityAt = 1

\* the terminal sequence of the wait handler has completed for run r, or a
\* stop, kill, close or idle stop has taken its place
ExitSequenceDone(r) ==
  /\ Started(r)
  /\ r \notin runs
  /\ \/ Len(RequestedStopsOf(r)) > 0
     \/ EndedByItself(r) /\ run[r].transcriptEnded /\ run[r].listeners = {}

\* C13: when the container of a fresh Run has exited (also when it has been
\* auto-removed and can no longer be inspected), the terminal sequence is
\* eventually completed: status resolved, transcript ended, listeners
\* closed, run-exited emitted, Run removed from the registry.
C13_ExitSequenceCompletes ==
  \A r \in RunIds :
    (r \in runs /\ ~run[r].isExec /\ containers[run[r].containerId].state \in {"exited", "gone"})
      ~> ExitSequenceDone(r)

\* the places of event `name` among the events broadcast for run r
PlacesOf(r, name) == {i \in 1..Len(events[r]) : events[r][i] = name}

\* some output of run r has reached follower l: the tail or a chunk
Delivered(l, r) ==
  /\ res[l] # NoRes
  /\ res[l].run = r
  /\ \E i \in 1..Len(res[l].frames) : res[l].frames[i].kind \in {"tail", "chunk", "b64"}

\* C14: run-started is broadcast before any output of the Run is delivered
\* to a listener and before any artifact event derived from its output.
C14_StartedBeforeOutput ==
  \A r \in RunIds :
    /\ \A i \in PlacesOf(r, "artifact") : \E j \in PlacesOf(r, "run-started") : j < i
    /\ \A l \in LIds : Delivered(l, r) => PlacesOf(r, "run-started") # {}

\* a follower has received a chunk of a Run whose output carried an artifact
C14_Witness ==
  \E r \in RunIds :
    /\ PlacesOf(r, "artifact") # {}
    /\ \E l \in LIds : Delivered(l, r) /\ Len(ChunkDataOf(l)) > 0

\* the MountFingerprint of a request and of a container's labels, with the
\* paths normalized
FingerprintOf(x) ==
  [engine |-> x.engine, workspace |-> resolve(x.workspace), creds |-> resolve(x.creds)]

\* the running warm containers whose fingerprint equals the request's
WarmMatches(req) ==
  {c \in CIds : /\ containers[c] # NoContainer
                /\ containers[c].state = "running"
                /\ containers[c].labels.warm
                /\ FingerprintOf(containers[c].labels) = FingerprintOf(req)}

\* C15: start creates a warm-exec Run on a matching warm container exactly
\* when preferWarm is set and a running warm container has the request's
\* fingerprint after path normalization; otherwise a fresh container.
C15_WarmExecIffFingerprintMatches ==
  [][\A req \in PoolStartRequests :
        (StartRunError(req) = "none" /\ FreeRunIds # {} /\ StartRun(req)) =>
           LET r == uuidv4
           IN  IF req.preferWarm /\ WarmMatches(req) # {}
               THEN run'[r].isExec /\ run'[r].containerId \in WarmMatches(req)
               ELSE /\ ~run'[r].isExec
                    /\ containers[run'[r].containerId] = NoContainer
                    /\ ~containers'[run'[r].containerId].labels.warm]_vars

\* C16: after any interleaving of ensure calls, at most one running warm
\* container exists per fingerprint (here: per label set, byte for byte).
RunningWarm == {c \in CIds : /\ containers[c] # NoContainer
                             /\ containers[c].state = "running"
                             /\ containers[c].labels.warm}

C16_OneWarmPerFingerprint ==
  \A c1, c2 \in RunningWarm : containers[c1].labels = containers[c2].labels => c1 = c2

\* C17: no container carries both kinds of label: a warm container has no
\* adz.runId label and a fresh run container has no adz.warm=true.
C17_LabelsNeverMixed ==
  /\ \A c \in CIds :
        containers[c] # NoContainer => ~(containers[c].labels.warm /\ containers[c].labels.runId # 0)
  /\ \A r \in RunIds :
        Started(r) =>
          IF run[r].isExec
          THEN containers[run[r].containerId].labels.runId = 0
          ELSE ~containers[run[r].containerId].labels.warm

\* a warm container and the fresh container of a Run exist side by side
C17_Witness ==
  /\ RunningWarm # {}
  /\ \E r \in RunIds :
        Started(r) /\ ~run[r].isExec /\ containers[run[r].containerId].labels.runId = r

\* a kill handler that found run id registered returns in this step
KillReturns(id) ==
  \E pc \in {"remove", "exec"} :
    CopiesIn([op |-> "kill", run |-> id, pc |-> pc], pending')
      < CopiesIn([op |-> "kill", run |-> id, pc |-> pc], pending)

\* C18: kill on a registered Run ends with the Run absent from the registry
\* and the request answered with success, whatever the driver's calls did.
C18_KillAlwaysRemoves ==
  [][\A id \in RunIds :
        KillReturns(id) => (id \notin runs' /\ resp' = DoneResponse("kill", id))]_vars

\* a kill was answered with success although the driver failed to kill and
\* to remove the Run's container, which is still running
C18_Witness ==
  \E id \in RunIds :
    /\ resp = DoneResponse("kill", id)
    /\ Started(id) /\ ~run[id].isExec /\ id \notin runs
    /\ run[id].status = "killed"
    /\ containers[run[id].containerId].state = "running"

\* C19: when the write of a chunk to one listener fails, that listener is
\* removed from the Run's listener set and nothing else changes: the Run
\* stays registered and running, every other listener has the chunk, and
\* the chunk is scanned for artifacts.
C19_FailedListenerRemoved ==
  [][\A r \in RunIds, bad \in LIds, fallbackOk \in BOOLEAN :
        OnData_WriteFails(r, bad, fallbackOk) =>
          /\ bad \notin run'[r].listeners
          /\ run'[r].listeners = run[r].listeners \ {bad}
          /\ r \in runs' /\ run'[r].status = "running"
          /\ \A l \in run[r].listeners \ {bad} :
                res'[l].frames = res[l].frames \o ChunkFrames(run[r].chunks + 1)
          /\ events' = ScanArtifacts(events, r, run[r].chunks + 1)]_vars

\* C20: lastActivityAt is advanced on every output chunk of the Run and on
\* every input write accepted for it, through POST /runs/:id/input and
\* through the terminal socket alike.
C20_ActivityOnOutputAndInput ==
  [][\A r \in RunIds :
        (OnData(r) \/ (r \in runs /\ Input(r)) \/ WsMessage(r))
          => run'[r].lastActivityAt = now]_vars

\* the request that was just answered was an input for run id
InputAnswered(id) == resp' # NoResp /\ resp'.op = "input" /\ resp'.id = id

\* C21: input for an absent Run fails with not-found and writes nothing;
\* input whose write the stream rejects fails with write-failed and leaves
\* lastActivityAt as it was; only a successful write updates lastActivityAt.
C21_InputErrors ==
  [][\A id \in RunIds :
        InputAnswered(id) =>
          /\ id \notin runs => (resp'.code = 404 /\ run' = run)
          /\ (id \in runs /\ run[id].attachStream # "open")
                => (resp'.code = 500 /\ run'[id].lastActivityAt = run[id].lastActivityAt)
          /\ (id \in runs /\ resp'.code # 200)
                => run'[id].lastActivityAt = run[id].lastActivityAt]_vars

\* bulk handler h goes on in this step
BulkAdvances(h) == CopiesIn(h, pending') < CopiesIn(h, pending)

\* C22: stop-all and kill-all without includeWarm never stop, kill or remove
\* a warm container: the warm containers running before a step of such a
\* handler are running after it.
C22_BulkSparesWarm ==
  [][\A h \in BulkPending :
        (~h.includeWarm /\ BulkAdvances(h)) =>
           \A c \in RunningWarm : containers'[c] = containers[c]]_vars

\* a bulk operation without includeWarm has gone through its loop and
\* removed the container of a Run, next to a warm container that runs
C22_Witness ==
  /\ RunningWarm # {}
  /\ \E h \in BulkPending : ~h.includeWarm /\ h.todo = {} /\ h.count > 0
  /\ \E c \in CIds : containers[c] # NoContainer /\ containers[c].state = "gone"
                      /\ ~containers[c].labels.warm

\* follower l has received the frame "[[PROCESS EXITED]] status=<status>"
HasExitedFrame(l) ==
  \E i \in 1..Len(res[l].frames) : res[l].frames[i].kind = "exited"

\* C23: every log stream of a follower that the server has closed has
\* received the terminal frame "[[PROCESS EXITED]] status=<status>" before,
\* whichever path closed it: stream end, stop, kill, close or idle stop.
C23_ExitedFrameBeforeClose ==
  \A l \in LIds :
    (res[l] # NoRes /\ res[l].follow /\ res[l].state = "ended") => HasExitedFrame(l)

\* C24: every Run's transcriptPath lies under <workspace>/.runs/ and no
\* two Runs share a transcriptPath, also not two Runs of one engine and
\* workspace started at the same clock reading.
C24_TranscriptPathUnique ==
  /\ \A r \in RunIds :
        Started(r) => run[r].transcriptPath.runsDir = resolve(run[r].workspace)
  /\ \A r1, r2 \in RunIds :
        (Started(r1) /\ Started(r2) /\ r1 # r2)
          => run[r1].transcriptPath # run[r2].transcriptPath

\* the last min(Len(f), TailCap) entries of file f
LastEntries(f) ==
  LET n == IF Len(f) < TailCap THEN Len(f) ELSE TailCap
  IN  [i \in 1..n |-> f[Len(f) - n + i]]

\* what a follower has received starts with the tail, which comes once, and
\* only followers with follow set are listeners
TailComesFirst ==
  /\ \A l \in LIds :
        (res[l] # NoRes /\ Len(res[l].frames) > 0) =>
          /\ res[l].frames[1].kind = "tail"
          /\ \A i \in 2..Len(res[l].frames) : res[l].frames[i].kind # "tail"
  /\ \A r \in RunIds : Started(r) => \A l \in run[r].listeners : res[l].follow

\* C25: a follower that attaches after the Run started first receives the
\* last min(fileSize, 64 KiB) bytes of the transcript and then live chunks;
\* with follow=0 it receives the tail only and never joins the listeners.
C25_TailThenLive ==
  [][/\ TailComesFirst'
     /\ \A l \in LIds :
          GetLogsTail(l) =>
            LET r == res[l].run
            IN  /\ res'[l].frames =
                     << [kind |-> "tail", data |-> LastEntries(files[run[r].transcriptPath])] >>
                /\ IF res[l].follow
                   THEN l \in run'[r].listeners /\ res'[l].state = "following"
                   ELSE l \notin run'[r].listeners /\ res'[l].state = "ended"]_vars

\* a follower attached when the transcript held one chunk, got it as the
\* tail and then the next chunk live
C25_Witness ==
  \E l \in LIds :
    /\ res[l] # NoRes /\ res[l].state = "following"
    /\ Len(res[l].frames) = 3
    /\ res[l].frames[1].kind = "tail" /\ Len(res[l].frames[1].data) = 1
    /\ res[l].frames[2] = [kind |-> "chunk", data |-> 2]

\* the components pp lie strictly below the components rp
StrictlyBelow(pp, rp) == Len(pp) > Len(rp) /\ SubSeq(pp, 1, Len(rp)) = rp

\* C26: a path that /runs/:id/file serves is, after normalization, a strict
\* descendant of the Run's workspace or equal to <workspace>/.runs; every
\* other path is rejected before any file is read.
C26_FileWithinWorkspace ==
  (gOut.op = "file" /\ gOut.accepted) =>
     \/ StrictlyBelow(ResolveParts(gPath), ResolveParts(gOut.workspace))
     \/ ResolveParts(gPath) = ResolveParts(gOut.workspace) \o << <<".", "r">> >>

\* a path that is not in normal form was served: it has a "." component
C26_Witness ==
  /\ gOut.op = "file" /\ gOut.accepted
  /\ \E i \in 1..(Len(gPath) - 2) :
        gPath[i] = "/" /\ gPath[i + 1] = "." /\ gPath[i + 2] = "/"

\* C27: writeEnv followed by readEnv returns every written key with exactly
\* the written value, also for values that are empty, that start and end
\* with a quote, or that have leading or trailing white space.
C27_EnvRoundTrip ==
  (credsOut.op = "write-env" /\ WriteEnvPending = {}) =>
     \A i \in 1..Len(credsOut.updates) :
        ValueOf(readCredsEnv, credsOut.updates[i].k) = credsOut.updates[i].v

\* the keys of an env object
KeysOf(env) == {env[i].k : i \in 1..Len(env)}

\* C28: writeEnv overlays its updates atomically: a write-env leaves every
\* key it does not update in the file with its value, so that of two
\* concurrent calls with disjoint keys no update is lost.
C28_NoLostUpdate ==
  [][\A h \in WriteEnvPending :
        WriteEnv_Write(h) =>
          \A k \in KeysOf(readCredsEnv) \ KeysOf(h.updates) :
             ValueOf(readCredsEnv', k) = ValueOf(readCredsEnv, k)]_vars


\* C29: checkReadiness answers ready = true exactly under the rule of its
\* engine (codex: OPENAI_API_KEY set or codex/ non-empty; gemini:
\* GEMINI_API_KEY set or gemini/ or gcloud/ non-empty; opencode: one of the
\* three keys set or opencode/ non-empty), a key being set when the env file
\* gives it a non-empty value, and the reasons are non-empty exactly when
\* ready is false.
KeySet(k) ==
  \E i \in 1..Len(readCredsEnv) :
     readCredsEnv[i].k = <<k>> /\ readCredsEnv[i].v # <<>>

SpecRule(engine) ==
  \/ engine = "codex" /\ (KeySet("OPENAI_API_KEY") \/ "codex" \in credDirs)
  \/ engine = "gemini" /\ (KeySet("GEMINI_API_KEY") \/ "gemini" \in credDirs
                            \/ "gcloud" \in credDirs)
  \/ engine = "opencode" /\ (\/ KeySet("OPENAI_API_KEY")
                             \/ KeySet("ANTHROPIC_API_KEY")
                             \/ KeySet("GEMINI_API_KEY")
                             \/ "opencode" \in credDirs)

C29_ReadinessRule ==
  credsOut.op = "check" =>
     /\ credsOut.ready <=> SpecRule(credsOut.engine)
     /\ (credsOut.reasons # <<>>) <=> ~credsOut.ready

\* gemini is found ready on the gcloud directory alone, with an env file
\* that names GEMINI_API_KEY without a value
C29_Witness ==
  /\ credsOut.op = "check" /\ credsOut.engine = "gemini" /\ credsOut.ready
  /\ credDirs = {"gcloud"}
  /\ envFile.exists /\ ValueOf(readCredsEnv, <<"GEMINI_API_KEY">>) = <<>>


\* C30: a failure of the container driver during create, start or attach in
\* start is answered with a 5xx status, unlike the 400 given for an invalid
\* engine or path.
DriverFailures == {"runtime failed: " \o stage : stage \in DriverStages}

C30_DriverFailureIs5xx ==
  (resp.op = "start" /\ resp.error \in DriverFailures) => resp.code \in 500..599


\* C31: when reading the .env file or a credentials sub-directory fails,
\* checkReadiness does not answer what it answers for a readable pocket that
\* is empty (not ready, with the engine's reason).
EmptyPocketAnswer(engine) == [ready |-> FALSE, reasons |-> reasonsOf(engine, FALSE)]

C31_IOFailureNotEmptyPocket ==
  (credsOut.op = "check-io" /\ credsOut.ioFailed) =>
     [ready |-> credsOut.ready, reasons |-> credsOut.reasons]
        # EmptyPocketAnswer(credsOut.engine)


\* C32: of each output chunk, each listener of the Run receives one frame
\* with the chunk's payload, never two.
PayloadFrames(l, d) ==
  {i \in 1..Len(res[l].frames) :
     res[l].frames[i].kind \in {"chunk", "b64", "sse"} /\ res[l].frames[i].data = d}

C32_OneFramePerChunk ==
  \A l \in LIds :
    res[l] # NoRes => \A d \in 1..MaxChunks : Cardinality(PayloadFrames(l, d)) <= 1


\* C33: the runIds GET /runs answers are the content the registry had at
\* some instant of the call, also when runs start or stop during the call.
C33_ListIsSnapshot ==
  (resp.op = "list" /\ resp.code = 200) => resp.ids \in resp.snaps


\* C34: a subscriber of the event bus receives the events broadcast between
\* its subscription and its disconnect, each once and in the order of the
\* broadcasts, and no event from before it joined.
ReceivedOf(r) ==
  LET own == SelectSeq(events[BusClient].frames, LAMBDA f : f.run = r)
  IN  [i \in 1..Len(own) |-> own[i].name]

BroadcastWhileJoined(r) ==
  SubSeq(events[r], events[BusClient].from[r] + 1,
         IF events[BusClient].state = "open" THEN Len(events[r])
         ELSE events[BusClient].to[r])

C34_SubscriberSeesItsWindow ==
  events[BusClient].state # "none" =>
     \A r \in RunIds : ReceivedOf(r) = BroadcastWhileJoined(r)

\* a subscriber that joined after run-started, received an event, and left
\* before the last one
C34_Witness ==
  /\ events[BusClient].state = "closed"
  /\ \E r \in RunIds :
        /\ events[BusClient].from[r] > 0
        /\ events[BusClient].to[r] > events[BusClient].from[r]
        /\ Len(events[r]) > events[BusClient].to[r]
        /\ Len(events[BusClient].frames) = events[BusClient].to[r] - events[BusClient].from[r]


\* C35: the path guard of start and of warm/ensure accepts every absolute
\* path that is a strict descendant of an allow-list root, also one whose
\* first component below the root begins with two dots.
C35_DescendantsAccepted ==
  ( /\ gOut.op \in {"start-workspace", "start-creds", "ensure-workspace", "ensure-creds"}
    /\ isAbsolute(gPath)
    /\ \E root \in RootsOf(gOut.op) :
          StrictlyBelow(ResolveParts(gPath), ResolveParts(root)) )
  => gOut.accepted


\* C36: once stop, kill or close has removed a Run from the registry, no
\* input is written to its attach stream any more, also not by a terminal
\* socket that was connected before.
C36_NoInputAfterRemoval ==
  [][\A id \in RunIds :
        (Started(id) /\ id \notin runs) => run'[id].wsWrites = run[id].wsWrites]_vars


\* C37: a Run that stop-all or kill-all has taken out of the registry has had
\* its listeners closed and a terminal lifecycle event broadcast: no Run
\* leaves the registry silently.
C37_BulkEndsRuns ==
  \A r \in RunIds :
    (Started(r) /\ r \notin runs) =>
       /\ TerminalEventsOf(r) # <<>>
       /\ run[r].listeners = {}


\* C38: a follower with follow=1 misses no output: every chunk the Run
\* produced after the handler read the tail, hence after the request was
\* accepted, has reached the follower as a live chunk (the tail holds what
\* the file held when it was read).
C38_FollowerMissesNothing ==
  \A l \in LIds :
    (res[l] # NoRes /\ res[l].state = "following") =>
       \A d \in (res[l].at + 1)..run[res[l].run].chunks :
          \E i \in 1..Len(res[l].frames) :
             res[l].frames[i].kind = "chunk" /\ res[l].frames[i].data = d


\* C39: a follow=1 log stream whose Run has terminated is eventually closed
\* by the server, also when the follower attached after the stream of the
\* Run had ended or after the idle reaper had stopped the Run.
C39_FollowerEventuallyClosed ==
  \A l \in LIds :
    (res[l].state = "following" /\ run[res[l].run].status # "running")
      ~> (res[l].state # "following")


\* C40: when start has failed with a container driver error, nothing of it
\* is left: no Run is registered and no run-started event broadcast for it,
\* and no container labeled with its runId is running.
C40_FailedStartLeavesNothing ==
  [][\A req \in HttpStartRequests, stage \in DriverStages :
        StartRun_DriverFails(req, stage) =>
           /\ runs' = runs /\ run' = run
           /\ events' = events
           /\ \A c \in CIds :
                 (containers'[c] # NoContainer /\ containers'[c].labels.runId = LostRunId)
                    => containers'[c].state # "running"]_vars

=============================================================================
